---- MODULE Spec2Model ----
(***************************************************************************)
(* Session / lap state machine of the telemetry backend (SessionManager,   *)
(* src/backend/src/services/databaseService.ts).                           *)
(*                                                                         *)
(* startSession and endSession contain no await that suspends before their *)
(* effects are complete, so each is one action.  processTelemetryData is   *)
(* an async function with two awaits (handleLapChange, line 550, and       *)
(* storeTelemetryIfNeeded, line 555); it is modelled by the segment up to  *)
(* the first await and the rest.  The rest runs as microtasks, which the   *)
(* event loop drains before it delivers the next packet or request, so no  *)
(* other call starts while pc # "idle".                                    *)
(*                                                                         *)
(* The packet layer (TelemetryUDPListener, TelemetryParser and the UDP     *)
(* handlers of TelemetryWebSocketServer) is modelled on top: DecoderSpec   *)
(* applies the decoders to buffers of every length, ServerSpec feeds       *)
(* datagrams through the listener and the handlers into the tracker.       *)
(*                                                                         *)
(* Distances: lapDistance is a float; it is modelled as an integer number  *)
(* of 1/DistUnit metres, and Math.floor as floor division by DistUnit.     *)
(* lastStoredDistance and distanceFromStart are whole metres.              *)
(*                                                                         *)
(* Observers of the emitted events: emitted is the sequence of events of   *)
(* the most recent call, lapSamples the telemetryStored data points since  *)
(* the last lapStarted, sessionsStarted and sessionsEnded count the        *)
(* sessionStarted and sessionEnded events.  call holds the most recent     *)
(* call and its result, and its arguments while the call is suspended.     *)
(***************************************************************************)
EXTENDS Integers, Sequences, FiniteSets, TLC

\* ---------------------------------------------------------------- bounds
MaxIds == 4
MaxLapNum == 2
MaxDist == 3
DistUnit == 2

\* ------------------------------------------------------------- constants
DISTANCE_INTERVAL == 1
FLYING_LAP == 1

\* sizes of the packet layout (src/unnamed/part_001, udpListener.ts)
HEADER_SIZE == 29
carTelemetryDataSize == 60
lapDataSize == 57
NUM_CARS == 22
CAR_TELEMETRY == 6
LAP_DATA == 2
SESSION == 1
CAR_TELEMETRY_PACKET_SIZE == 1352
LAP_DATA_PACKET_SIZE == 1285

\* ------------------------------------------------------------ input sets
LapNums == 0..MaxLapNum
LapTimes == {0, 85000}
InvalidFlags == {0, 1}
DriverStatuses == {0, FLYING_LAP, 4}
LapDistances == (0 - 1)..MaxDist
Speeds == {200}

LapDataInputs ==
    [currentLapNum : LapNums, lastLapTimeInMS : LapTimes,
     currentLapInvalid : InvalidFlags, driverStatus : DriverStatuses,
     lapDistance : LapDistances]

\* the four values of each per-wheel quantity of a car record, in the order
\* in which they lie in the record; all distinct, so that a permutation or a
\* mix-up of two quantities shows
BrakesTemperatures == <<301, 302, 303, 304>>
TyresSurfaceTemperatures == <<91, 92, 93, 94>>
TyresInnerTemperatures == <<101, 102, 103, 104>>
TyresPressures == <<21, 22, 23, 24>>
SurfaceTypes == <<1, 2, 3, 4>>

TelemetryInputs ==
    [speed : Speeds,
     brakesTemperature : {BrakesTemperatures},
     tyresSurfaceTemperature : {TyresSurfaceTemperatures},
     tyresInnerTemperature : {TyresInnerTemperatures},
     tyresPressure : {TyresPressures},
     surfaceType : {SurfaceTypes}]

NoLapData ==
    [currentLapNum |-> 0, lastLapTimeInMS |-> 0, currentLapInvalid |-> 0,
     driverStatus |-> 0, lapDistance |-> 0]

NoTelemetry == CHOOSE t \in TelemetryInputs : t.speed = 200

\* an optional value (T | null, or an optional field) is a sequence of
\* length at most one
Null == <<>>

Some(x) == <<x>>

Val(o) == o[1]

\* this.currentSession?.isActive
SessionIsActive(s) == s # Null /\ Val(s).isActive

\* Math.floor of a distance given in 1/DistUnit metres
Floor(x) == x \div DistUnit

VARIABLES
    currentSession, currentLap, lastLapNumber, lastDistance, isInFlyingLap,
    trackLength, lastStoredDistance, nextId, pc, call, emitted, lapSamples,
    sessionsStarted, sessionsEnded

\* the packet layer: buffer is the datagram most recently received, decoded
\* the result of the most recent decoder call, dispatched the event the
\* listener emitted for the datagram; latestTelemetryData, latestLapData
\* and latestHeader are the closure variables of setupUDPHandlers and
\* playerCarIndex the field of the server.  scenario and scenarioLog observe
\* the end-to-end scenario: the number of its steps matched so far and the
\* lifecycle events emitted since its start.
VARIABLES
    buffer, decoded, dispatched, latestTelemetryData, latestLapData,
    latestHeader, playerCarIndex, scenario, scenarioLog

\* observers and the requesters' side: seen tells whether a telemetry frame
\* and a lap frame have been taken from a packet since the last (re)start,
\* latestCars the car index each of the two latest frames was taken at,
\* response the reply the requester of the most recent startSession or
\* endSession request received (no request is handled in a step that
\* handles a datagram), startedLaps the lap numbers of the
\* lapStarted events of the current session.
VARIABLES seen, latestCars, response, startedLaps

\* sessionHistory observes the events since the most recent sessionStarted:
\* whether a sessionStarted has not yet been followed by a sessionEnded, the
\* ids of the laps of the lapStarted events, the number of lapCompleted
\* events, and whether an update with a lap number above 0 has begun.
VARIABLE sessionHistory

\* the frontend's WebSocket hook: ws, reconnectTimeoutId and
\* reconnectAttempts are its refs and connectionStatus its state; sockets are
\* the WebSocket objects that have not fired their close event, each with
\* its readyState, timers the pending setTimeout callbacks, each with the
\* time that remains of its delay.  attemptsSinceOpen observes the reconnect
\* attempts (runs of a timer's callback) made since the last successful open
\* and scheduled the most recent scheduling of a reconnect.
VARIABLES
    ws, reconnectTimeoutId, reconnectAttempts, connectionStatus, sockets,
    timers, attemptsSinceOpen, scheduled

\* the server's persistence: telemetryBuffer is the buffer of data points,
\* pending the listeners suspended at an await, emitter the tracker as far
\* as its events go: whether a session is active, and the current lap.
\* request observes the argument of the call of saveTelemetryData made by
\* the step, passed how many of the first data points of the buffer have
\* been passed to saveTelemetryData (every call passes data points from the
\* start of the buffer on), and lost whether a data point has been removed
\* from the buffer that had not been passed to it and was in no copy of the
\* buffer that a suspended flush still had to save.
VARIABLES telemetryBuffer, pending, emitter, request, passed, lost

persistence == <<telemetryBuffer, pending, emitter, request, passed, lost>>

tracker ==
    <<currentSession, currentLap, lastLapNumber, lastDistance, isInFlyingLap,
      trackLength, lastStoredDistance>>

vars ==
    <<currentSession, currentLap, lastLapNumber, lastDistance, isInFlyingLap,
      trackLength, lastStoredDistance, nextId, pc, call, emitted, lapSamples,
      sessionsStarted, sessionsEnded, buffer, decoded, dispatched,
      latestTelemetryData, latestLapData, latestHeader, playerCarIndex,
      scenario, scenarioLog, seen, latestCars, response, startedLaps,
      sessionHistory,
      ws, reconnectTimeoutId, reconnectAttempts, connectionStatus, sockets,
      timers, attemptsSinceOpen, scheduled,
      telemetryBuffer, pending, emitter, request, passed, lost>>

Event(t, p) == [type |-> t, payload |-> p]

Call(o, r, l, t) == [op |-> o, result |-> r, lapData |-> l, telemetry |-> t]

frontend ==
    <<ws, reconnectTimeoutId, reconnectAttempts, connectionStatus, sockets,
      timers, attemptsSinceOpen, scheduled>>

unobserved == <<startedLaps, sessionHistory, frontend, persistence>>

beyondServer ==
    <<seen, latestCars, response, startedLaps, sessionHistory, frontend,
      persistence>>

packetLayer ==
    <<buffer, decoded, dispatched, latestTelemetryData, latestLapData,
      latestHeader, playerCarIndex, scenario, scenarioLog, beyondServer>>

\* a datagram: its length, the header fields the handlers use, the content
\* of its car records (every car record of one datagram carries the same
\* content) and seed, which fixes the raw bytes: the byte at offset i is
\* (seed + i) % 256
Datagram(len, id, idx, l, t, sd) ==
    [length |-> len, packetId |-> id, playerCarIndex |-> idx, lapData |-> l,
     telemetry |-> t, seed |-> sd]

NoBuffer == Datagram(0, 0, 0, NoLapData, NoTelemetry, 0)

NotDecoded == [op |-> "none", result |-> [error |-> FALSE]]

\* what the requester of a session request receives: reply is Null when
\* nothing is sent back
Response(e, r) == [entry |-> e, reply |-> r]

NoResponse == Response("none", Null)

Init ==
    /\ seen = [telemetry |-> FALSE, lapData |-> FALSE]
    /\ latestCars = [telemetry |-> Null, lapData |-> Null]
    /\ response = NoResponse
    /\ startedLaps = {}
    /\ sessionHistory = [open |-> FALSE, lapIds |-> {}, lapsCompleted |-> 0,
                         lapReported |-> FALSE]
    /\ ws = Null
    /\ reconnectTimeoutId = Null
    /\ reconnectAttempts = 0
    /\ connectionStatus = "disconnected"
    /\ sockets = {}
    /\ timers = {}
    /\ attemptsSinceOpen = 0
    /\ scheduled = Null
    /\ telemetryBuffer = <<>>
    /\ pending = {}
    /\ emitter = [session |-> FALSE, lap |-> Null]
    /\ request = Null
    /\ passed = 0
    /\ lost = FALSE
    /\ buffer = NoBuffer
    /\ decoded = NotDecoded
    /\ dispatched = "none"
    /\ latestTelemetryData = Null
    /\ latestLapData = Null
    /\ latestHeader = Null
    /\ playerCarIndex = 0
    /\ scenario = 0
    /\ scenarioLog = <<>>
    /\ currentSession = Null
    /\ currentLap = Null
    /\ lastLapNumber = 0
    /\ lastDistance = 0
    /\ isInFlyingLap = FALSE
    /\ trackLength = 0
    /\ lastStoredDistance = 0 - 1
    /\ nextId = 1
    /\ pc = "idle"
    /\ call = Call("none", "ok", NoLapData, NoTelemetry)
    /\ emitted = <<>>
    /\ lapSamples = <<>>
    /\ sessionsStarted = 0
    /\ sessionsEnded = 0

\* ---------------------------------------------------------- startSession
NewSession(id) == [id |-> id, totalLaps |-> 0, isActive |-> TRUE, ended |-> FALSE]

\* mutant: the isActive check of line 472 left out
startSessionUnchecked ==
    /\ pc = "idle"
    /\ SessionIsActive(currentSession)
    /\ nextId <= MaxIds
    /\ currentSession' = Some(NewSession(nextId))
    /\ nextId' = nextId + 1
    /\ lastLapNumber' = 0
    /\ lastDistance' = 0
    /\ isInFlyingLap' = FALSE
    /\ lastStoredDistance' = 0 - 1
    /\ emitted' = <<Event("sessionStarted", NewSession(nextId))>>
    /\ call' = Call("startSession", "ok", NoLapData, NoTelemetry)
    /\ sessionsStarted' = sessionsStarted + 1
    /\ UNCHANGED <<currentLap, trackLength, pc, lapSamples, sessionsEnded>>

\* mutant: the tracking state reset before the isActive check
startSessionResetsThenFails ==
    /\ pc = "idle"
    /\ SessionIsActive(currentSession)
    /\ lastLapNumber' = 0
    /\ lastDistance' = 0
    /\ isInFlyingLap' = FALSE
    /\ lastStoredDistance' = 0 - 1
    /\ call' = Call("startSession", "SessionAlreadyActive", NoLapData, NoTelemetry)
    /\ emitted' = <<>>
    /\ UNCHANGED <<currentSession, currentLap, trackLength, nextId, pc, lapSamples,
                   sessionsStarted, sessionsEnded>>

startSessionFail ==
    /\ pc = "idle"
    /\ SessionIsActive(currentSession)
    /\ call' = Call("startSession", "SessionAlreadyActive", NoLapData, NoTelemetry)
    /\ emitted' = <<>>
    /\ UNCHANGED <<tracker, nextId, pc, lapSamples, sessionsStarted, sessionsEnded>>

\* mutant: lastLapNumber not reset (line 492 left out)
startSessionKeepsLapNumber ==
    /\ pc = "idle"
    /\ ~SessionIsActive(currentSession)
    /\ nextId <= MaxIds
    /\ currentSession' = Some(NewSession(nextId))
    /\ nextId' = nextId + 1
    /\ lastDistance' = 0
    /\ isInFlyingLap' = FALSE
    /\ lastStoredDistance' = 0 - 1
    /\ emitted' = <<Event("sessionStarted", NewSession(nextId))>>
    /\ call' = Call("startSession", "ok", NoLapData, NoTelemetry)
    /\ sessionsStarted' = sessionsStarted + 1
    /\ UNCHANGED <<currentLap, lastLapNumber, trackLength, pc, lapSamples,
                   sessionsEnded>>

\* mutant: lastStoredDistance not reset (line 495 left out)
startSessionKeepsDistance ==
    /\ pc = "idle"
    /\ ~SessionIsActive(currentSession)
    /\ nextId <= MaxIds
    /\ currentSession' = Some(NewSession(nextId))
    /\ nextId' = nextId + 1
    /\ lastLapNumber' = 0
    /\ lastDistance' = 0
    /\ isInFlyingLap' = FALSE
    /\ emitted' = <<Event("sessionStarted", NewSession(nextId))>>
    /\ call' = Call("startSession", "ok", NoLapData, NoTelemetry)
    /\ sessionsStarted' = sessionsStarted + 1
    /\ UNCHANGED <<currentLap, trackLength, lastStoredDistance, pc, lapSamples,
                   sessionsEnded>>

startSessionOk ==
    /\ pc = "idle"
    /\ ~SessionIsActive(currentSession)
    /\ nextId <= MaxIds
    /\ currentSession' = Some(NewSession(nextId))
    /\ nextId' = nextId + 1
    /\ lastLapNumber' = 0
    /\ lastDistance' = 0
    /\ isInFlyingLap' = FALSE
    /\ lastStoredDistance' = 0 - 1
    /\ emitted' = <<Event("sessionStarted", NewSession(nextId))>>
    /\ call' = Call("startSession", "ok", NoLapData, NoTelemetry)
    /\ sessionsStarted' = sessionsStarted + 1
    /\ UNCHANGED <<currentLap, trackLength, pc, lapSamples, sessionsEnded>>

\* ------------------------------------------------------------ endSession
\* mutant: the end timestamp of line 511 left out
EndedCopyNoTimestamp(s) == [s EXCEPT !.isActive = FALSE]

EndedCopy(s) == [s EXCEPT !.isActive = FALSE, !.ended = TRUE]

\* mutant: endSession returns null instead of throwing
endSessionSilent ==
    /\ pc = "idle"
    /\ ~SessionIsActive(currentSession)
    /\ call' = Call("endSession", "ok", NoLapData, NoTelemetry)
    /\ emitted' = <<>>
    /\ UNCHANGED <<tracker, nextId, pc, lapSamples, sessionsStarted, sessionsEnded>>

endSessionFail ==
    /\ pc = "idle"
    /\ ~SessionIsActive(currentSession)
    /\ call' = Call("endSession", "NoActiveSession", NoLapData, NoTelemetry)
    /\ emitted' = <<>>
    /\ UNCHANGED <<tracker, nextId, pc, lapSamples, sessionsStarted, sessionsEnded>>

\* mutant: a lap in progress completed by endSession
endSessionCompletesLap ==
    /\ pc = "idle"
    /\ SessionIsActive(currentSession)
    /\ emitted' =
          IF currentLap # Null
          THEN <<Event("lapCompleted", Val(currentLap)),
                 Event("sessionEnded",
                       EndedCopy([Val(currentSession) EXCEPT !.totalLaps = @ + 1]))>>
          ELSE <<Event("sessionEnded", EndedCopy(Val(currentSession)))>>
    /\ currentSession' = Null
    /\ currentLap' = Null
    /\ lastLapNumber' = 0
    /\ isInFlyingLap' = FALSE
    /\ call' = Call("endSession", "ok", NoLapData, NoTelemetry)
    /\ sessionsEnded' = sessionsEnded + 1
    /\ UNCHANGED <<lastDistance, trackLength, lastStoredDistance, nextId, pc,
                   lapSamples, sessionsStarted>>

\* mutant: isInFlyingLap not cleared (line 519 left out)
endSessionKeepsFlying ==
    /\ pc = "idle"
    /\ SessionIsActive(currentSession)
    /\ emitted' = <<Event("sessionEnded", EndedCopy(Val(currentSession)))>>
    /\ currentSession' = Null
    /\ currentLap' = Null
    /\ lastLapNumber' = 0
    /\ call' = Call("endSession", "ok", NoLapData, NoTelemetry)
    /\ sessionsEnded' = sessionsEnded + 1
    /\ UNCHANGED <<isInFlyingLap, lastDistance, trackLength,
                   lastStoredDistance, nextId, pc, lapSamples, sessionsStarted>>

\* mutant: currentLap not cleared (line 517 left out)
endSessionKeepsLap ==
    /\ pc = "idle"
    /\ SessionIsActive(currentSession)
    /\ emitted' = <<Event("sessionEnded", EndedCopy(Val(currentSession)))>>
    /\ currentSession' = Null
    /\ lastLapNumber' = 0
    /\ isInFlyingLap' = FALSE
    /\ call' = Call("endSession", "ok", NoLapData, NoTelemetry)
    /\ sessionsEnded' = sessionsEnded + 1
    /\ UNCHANGED <<currentLap, lastDistance, trackLength, lastStoredDistance, nextId,
                   pc, lapSamples, sessionsStarted>>

endSessionOk ==
    /\ pc = "idle"
    /\ SessionIsActive(currentSession)
    /\ emitted' = <<Event("sessionEnded", EndedCopy(Val(currentSession)))>>
    /\ currentSession' = Null
    /\ currentLap' = Null
    /\ lastLapNumber' = 0
    /\ isInFlyingLap' = FALSE
    /\ call' = Call("endSession", "ok", NoLapData, NoTelemetry)
    /\ sessionsEnded' = sessionsEnded + 1
    /\ UNCHANGED <<lastDistance, trackLength, lastStoredDistance, nextId, pc,
                   lapSamples, sessionsStarted>>

\* -------------------------------------------------- processTelemetryData
\* mutant: the flying-lap flag updated before the isActive check
processNoSessionTracksStatus ==
    /\ pc = "idle"
    /\ ~SessionIsActive(currentSession)
    /\ \E l \in LapDataInputs : isInFlyingLap' = (l.driverStatus = FLYING_LAP)
    /\ call' = Call("processTelemetryData", "ok", NoLapData, NoTelemetry)
    /\ emitted' = <<>>
    /\ UNCHANGED <<currentSession, currentLap, lastLapNumber, lastDistance,
                   trackLength, lastStoredDistance, nextId, pc, lapSamples,
                   sessionsStarted, sessionsEnded>>

\* line 532: no active session, the call returns at once, before it reads
\* any of its arguments
processNoSession ==
    /\ pc = "idle"
    /\ ~SessionIsActive(currentSession)
    /\ call' = Call("processTelemetryData", "ok", NoLapData, NoTelemetry)
    /\ emitted' = <<>>
    /\ UNCHANGED <<tracker, nextId, pc, lapSamples, sessionsStarted, sessionsEnded>>

\* mutant: the currentLapNum > 0 test left out
LapChangedAnyNumber(l, last) == l.currentLapNum # last

\* lines 546-549
LapChanged(l, last) == l.currentLapNum # last /\ l.currentLapNum > 0

\* line 569
CompletesLap(lap, l) == lap # Null /\ l.lastLapTimeInMS > 0

\* mutant: the invalid flag copied instead of inverted
CompletedLapFlagCopied(lap, l) ==
    [lap EXCEPT !.lapTimeMs = Some(l.lastLapTimeInMS),
                !.isValid = (l.currentLapInvalid # 0)]

\* lines 570-571
CompletedLap(lap, l) ==
    [lap EXCEPT !.lapTimeMs = Some(l.lastLapTimeInMS),
                !.isValid = (l.currentLapInvalid = 0)]

\* lines 583-589
NewLap(id, sid, l) ==
    [id |-> id, sessionId |-> sid, lapNumber |-> l.currentLapNum,
     isValid |-> TRUE, lapTimeMs |-> Null]

\* mutant: the lap completed without ending the session
handleLapChangeKeepsSession(l) ==
    LET lap == CompletedLap(Val(currentLap), l)
        session == [Val(currentSession) EXCEPT !.totalLaps = @ + 1]
    IN  /\ emitted' = <<Event("lapCompleted", lap)>>
        /\ currentSession' = Some(session)
        /\ currentLap' = Some(lap)
        /\ isInFlyingLap' = (l.driverStatus = FLYING_LAP)
        /\ UNCHANGED <<lastLapNumber, lastStoredDistance, nextId, lapSamples,
                       sessionsStarted, sessionsEnded>>

\* mutant: the session ended before the lap is completed
handleLapChangeEndsFirst(l) ==
    LET lap == CompletedLap(Val(currentLap), l)
        session == [Val(currentSession) EXCEPT !.totalLaps = @ + 1]
    IN  /\ emitted' = <<Event("sessionEnded", EndedCopy(session)),
                        Event("lapCompleted", lap)>>
        /\ currentSession' = Null
        /\ currentLap' = Null
        /\ lastLapNumber' = 0
        /\ isInFlyingLap' = FALSE
        /\ sessionsEnded' = sessionsEnded + 1
        /\ UNCHANGED <<lastStoredDistance, nextId, lapSamples, sessionsStarted>>

\* mutant: the session ended before its lap is counted
handleLapChangeEndsBeforeCounting(l) ==
    LET lap == CompletedLap(Val(currentLap), l)
    IN  /\ emitted' = <<Event("lapCompleted", lap),
                        Event("sessionEnded", EndedCopy(Val(currentSession)))>>
        /\ currentSession' = Null
        /\ currentLap' = Null
        /\ lastLapNumber' = 0
        /\ isInFlyingLap' = FALSE
        /\ sessionsEnded' = sessionsEnded + 1
        /\ UNCHANGED <<lastStoredDistance, nextId, lapSamples, sessionsStarted>>

\* lines 569-580: complete the current lap and end the session (endSession,
\* lines 510-519, runs to its end inside the call)
handleLapChangeComplete(l) ==
    LET lap == CompletedLap(Val(currentLap), l)
        session == [Val(currentSession) EXCEPT !.totalLaps = @ + 1]
    IN  /\ emitted' = <<Event("lapCompleted", lap),
                        Event("sessionEnded", EndedCopy(session))>>
        /\ currentSession' = Null
        /\ currentLap' = Null
        /\ lastLapNumber' = 0
        /\ isInFlyingLap' = FALSE
        /\ sessionsEnded' = sessionsEnded + 1
        /\ UNCHANGED <<lastStoredDistance, nextId, lapSamples, sessionsStarted>>

\* mutant: lastStoredDistance not reset for the new lap (line 592 left out)
handleLapChangeStartKeepsDistance(l) ==
    LET lap == NewLap(nextId, Val(currentSession).id, l)
    IN  /\ nextId <= MaxIds
        /\ nextId' = nextId + 1
        /\ currentLap' = Some(lap)
        /\ emitted' = <<Event("lapStarted", lap)>>
        /\ lapSamples' = <<>>
        /\ isInFlyingLap' = (l.driverStatus = FLYING_LAP)
        /\ UNCHANGED <<currentSession, lastLapNumber, lastStoredDistance,
                       sessionsStarted, sessionsEnded>>

\* lines 582-596: start a new lap
handleLapChangeStart(l) ==
    LET lap == NewLap(nextId, Val(currentSession).id, l)
    IN  /\ nextId <= MaxIds
        /\ nextId' = nextId + 1
        /\ currentLap' = Some(lap)
        /\ lastStoredDistance' = 0 - 1
        /\ emitted' = <<Event("lapStarted", lap)>>
        /\ lapSamples' = <<>>
        /\ isInFlyingLap' = (l.driverStatus = FLYING_LAP)
        /\ UNCHANGED <<currentSession, lastLapNumber, sessionsStarted, sessionsEnded>>

\* lines 565-597
handleLapChange(l) ==
    IF CompletesLap(currentLap, l)
    THEN handleLapChangeComplete(l)
    ELSE handleLapChangeStart(l)

\* mutant: a packet handler runs while an update is suspended at its await
HandlerMayInterleave == pc \in {"idle", "sample"}

\* part_001 lines 454-461: the handlers do not await processTelemetryData,
\* and no await of the update waits for more than a microtask; the
\* microtasks the update leaves behind run before the next datagram's
\* handler does, so a handler starts only when no update is suspended
NoUpdateSuspended == pc = "idle"

\* lines 532-551: up to the await of handleLapChange
processBeginWith(l, t) ==
    /\ NoUpdateSuspended
    /\ SessionIsActive(currentSession)
    /\ call' = Call("processTelemetryData", "pending", l, t)
    /\ trackLength' =
          IF l.lapDistance > trackLength THEN l.lapDistance ELSE trackLength
    /\ IF LapChanged(l, lastLapNumber)
       THEN handleLapChange(l)
       ELSE /\ isInFlyingLap' = (l.driverStatus = FLYING_LAP)
            /\ emitted' = <<>>
            /\ UNCHANGED <<currentSession, currentLap, lastLapNumber,
                           lastStoredDistance, nextId, lapSamples,
                           sessionsStarted, sessionsEnded>>
    /\ pc' = "sample"
    /\ UNCHANGED lastDistance

\* an update with any arguments
processBegin ==
    \E l \in LapDataInputs, t \in TelemetryInputs : processBeginWith(l, t)

\* mutant: a sample whenever the whole-metre distance differs from the last
DistanceChanged(d, last) == d # last

\* mutant: the comparison made strict
DistanceExceeded(d, last) == d > last + DISTANCE_INTERVAL

\* line 612
DistanceReached(d, last) == d >= last + DISTANCE_INTERVAL

\* lines 613-648
DataPoint(session, lap, l, t) ==
    [sessionId |-> session.id, lapId |-> lap.id,
     distanceFromStart |-> Floor(l.lapDistance),
     lapDistance |-> l.lapDistance, speed |-> t.speed,
     brakeTempRl |-> t.brakesTemperature[1],
     brakeTempRr |-> t.brakesTemperature[2],
     brakeTempFl |-> t.brakesTemperature[3],
     brakeTempFr |-> t.brakesTemperature[4],
     tyreSurfaceTempRl |-> t.tyresSurfaceTemperature[1],
     tyreSurfaceTempRr |-> t.tyresSurfaceTemperature[2],
     tyreSurfaceTempFl |-> t.tyresSurfaceTemperature[3],
     tyreSurfaceTempFr |-> t.tyresSurfaceTemperature[4],
     tyreInnerTempRl |-> t.tyresInnerTemperature[1],
     tyreInnerTempRr |-> t.tyresInnerTemperature[2],
     tyreInnerTempFl |-> t.tyresInnerTemperature[3],
     tyreInnerTempFr |-> t.tyresInnerTemperature[4],
     tyrePressureRl |-> t.tyresPressure[1],
     tyrePressureRr |-> t.tyresPressure[2],
     tyrePressureFl |-> t.tyresPressure[3],
     tyrePressureFr |-> t.tyresPressure[4],
     surfaceTypeRl |-> t.surfaceType[1],
     surfaceTypeRr |-> t.surfaceType[2],
     surfaceTypeFl |-> t.surfaceType[3],
     surfaceTypeFr |-> t.surfaceType[4]]

\* lines 602-654
storeTelemetryIfNeeded(l, t) ==
    IF /\ currentSession # Null
       /\ currentLap # Null
       /\ DistanceReached(Floor(l.lapDistance), lastStoredDistance)
    THEN /\ emitted' = Append(emitted,
                Event("telemetryStored",
                      DataPoint(Val(currentSession), Val(currentLap), l, t)))
         /\ lastStoredDistance' = Floor(l.lapDistance)
         /\ lapSamples' = Append(lapSamples,
                [lapId |-> Val(currentLap).id,
                 distanceFromStart |-> Floor(l.lapDistance)])
    ELSE UNCHANGED <<emitted, lastStoredDistance, lapSamples>>

\* lines 553-559: the sampling step and the closing assignments
processSample ==
    /\ pc = "sample"
    /\ IF isInFlyingLap /\ currentLap # Null
       THEN storeTelemetryIfNeeded(call.lapData, call.telemetry)
       ELSE UNCHANGED <<emitted, lastStoredDistance, lapSamples>>
    /\ lastLapNumber' = call.lapData.currentLapNum
    /\ lastDistance' = call.lapData.lapDistance
    /\ call' = Call("processTelemetryData", "ok", NoLapData, NoTelemetry)
    /\ pc' = "idle"
    /\ UNCHANGED <<currentSession, currentLap, isInFlyingLap, trackLength, nextId,
                   sessionsStarted, sessionsEnded>>

\* lines 659-673
getSessionStatus ==
    [hasActiveSession |-> SessionIsActive(currentSession),
     currentSession |-> currentSession,
     currentLap |-> currentLap,
     isInFlyingLap |-> isInFlyingLap,
     trackLength |-> trackLength]

\* the tracker driven directly: the packet layer stays as constructed
Next ==
    \/ startSessionFail /\ UNCHANGED packetLayer
    \/ startSessionOk /\ UNCHANGED packetLayer
    \/ endSessionFail /\ UNCHANGED packetLayer
    \/ endSessionOk /\ UNCHANGED packetLayer
    \/ processNoSession /\ UNCHANGED packetLayer
    \/ processBegin /\ UNCHANGED packetLayer
    \/ processSample /\ UNCHANGED packetLayer

Spec == Init /\ [][Next]_vars

\* --------------------------------------------------------------- decoders
\* Buffer.readUInt8(offset) within the buffer
readUInt8(b, offset) == (b.seed + offset) % 256

\* Buffer.readInt8(offset) within the buffer
readInt8(b, offset) ==
    LET u == readUInt8(b, offset) IN IF u >= 128 THEN u - 256 ELSE u

\* a read of width bytes at offset lies inside the buffer; Node throws a
\* RangeError for a read that does not
InRange(b, offset, width) == offset >= 0 /\ offset + width <= b.length

\* udpListener.ts lines 103-136: the widths of the header fields, in order
HeaderFieldWidths == <<2, 1, 1, 1, 1, 1, 8, 4, 4, 4, 1, 1>>

RECURSIVE ReadsInRange(_, _, _)
ReadsInRange(b, widths, offset) ==
    IF widths = <<>>
    THEN TRUE
    ELSE /\ InRange(b, offset, Head(widths))
         /\ ReadsInRange(b, Tail(widths), offset + Head(widths))

\* mutant: reads beyond the end of the buffer do not throw
parsePacketHeaderUnchecked(b) ==
    [error |-> FALSE, packetId |-> b.packetId, playerCarIndex |-> b.playerCarIndex]

\* udpListener.ts lines 100-152
parsePacketHeader(b) ==
    IF ReadsInRange(b, HeaderFieldWidths, 0)
    THEN [error |-> FALSE, packetId |-> b.packetId,
          playerCarIndex |-> b.playerCarIndex]
    ELSE [error |-> TRUE]

\* mutant: the tyre pressures read as 16-bit values
CarTelemetryFieldWidthsShortPressure ==
    <<2, 4, 4, 4, 1, 1, 2, 1, 1, 2,
      2, 2, 2, 2,  1, 1, 1, 1,  1, 1, 1, 1,  2,  2, 2, 2, 2,  1, 1, 1, 1>>

\* part_001 lines 86-152: the widths of the fields read for one car
\* telemetry record, in order (the four-wheel loops unrolled)
CarTelemetryFieldWidths ==
    <<2, 4, 4, 4, 1, 1, 2, 1, 1, 2,
      2, 2, 2, 2,  1, 1, 1, 1,  1, 1, 1, 1,  2,  4, 4, 4, 4,  1, 1, 1, 1>>

\* part_001 lines 218-327: the widths of the fields read for one lap record
LapDataFieldWidths ==
    <<4, 4, 2, 1, 2, 1, 2, 1, 2, 1, 4, 4, 4,
      1, 1, 1, 1, 1, 1, 1, 1, 1, 1, 1, 1, 1, 1, 1,
      2, 2, 1, 4, 1>>

RECURSIVE EndOfReads(_, _)
\* the offset after the fields of the given widths have been read from offset
\* (each read is followed by offset += width)
EndOfReads(widths, offset) ==
    IF widths = <<>>
    THEN offset
    ELSE EndOfReads(Tail(widths), offset + Head(widths))

RECURSIVE unshiftWheels(_, _, _)
\* mutant: each value put in front of the array
unshiftWheels(values, i, acc) ==
    IF i < 4
    THEN unshiftWheels(values, i + 1, <<values[i + 1]>> \o acc)
    ELSE acc

RECURSIVE pushWheels(_, _, _)
\* part_001 lines 116-121, 124-128, 131-135, 141-145, 148-152: the loop
\* for (i = 0; i < 4; i++) array.push(read at offset), over the four values
\* of one quantity as they lie in the record
pushWheels(values, i, acc) ==
    IF i < 4
    THEN pushWheels(values, i + 1, Append(acc, values[i + 1]))
    ELSE acc

\* part_001 lines 71-172: the car record at offset
parseCarTelemetryData(b, offset) ==
    [speed |-> b.telemetry.speed,
     brakesTemperature |-> pushWheels(b.telemetry.brakesTemperature, 0, <<>>),
     tyresSurfaceTemperature |->
         pushWheels(b.telemetry.tyresSurfaceTemperature, 0, <<>>),
     tyresInnerTemperature |->
         pushWheels(b.telemetry.tyresInnerTemperature, 0, <<>>),
     tyresPressure |-> pushWheels(b.telemetry.tyresPressure, 0, <<>>),
     surfaceType |-> pushWheels(b.telemetry.surfaceType, 0, <<>>)]

\* part_001 lines 217-328: the car record at offset
parseLapData(b, offset) == b.lapData

\* the bytes one record's reads cover
Read(widths, offset) == [from |-> offset, to |-> EndOfReads(widths, offset)]

\* mutant: the loop test made strict
RecordFitsStrict(b, offset, size) == offset + size < b.length

\* part_001 lines 31 and 193 (negated): the record at offset is complete
RecordFits(b, offset, size) == offset + size <= b.length

RECURSIVE carTelemetryLoop(_, _, _, _, _)
\* part_001 lines 29-40; reads records where each record was read
carTelemetryLoop(b, i, offset, acc, reads) ==
    IF i < NUM_CARS /\ RecordFits(b, offset, carTelemetryDataSize)
    THEN carTelemetryLoop(b, i + 1, offset + carTelemetryDataSize,
                          Append(acc, parseCarTelemetryData(b, offset)),
                          Append(reads, Read(CarTelemetryFieldWidths, offset)))
    ELSE [entries |-> acc, offset |-> offset, reads |-> reads]

\* part_001 lines 10-69
parseCarTelemetryPacket(b) ==
    LET loop == carTelemetryLoop(b, 0, HEADER_SIZE, <<>>, <<>>)
        o1 == loop.offset
        mfdPanelIndex == IF o1 < b.length THEN readUInt8(b, o1) ELSE 0
        o2 == IF o1 < b.length THEN o1 + 1 ELSE o1
        mfdPanelIndexSecondaryPlayer ==
            IF o2 < b.length THEN readUInt8(b, o2) ELSE 0
        o3 == IF o2 < b.length THEN o2 + 1 ELSE o2
        suggestedGear == IF o3 < b.length THEN readInt8(b, o3) ELSE 0
    IN  [error |-> FALSE,
         carTelemetryData |-> loop.entries,
         mfdPanelIndex |-> mfdPanelIndex,
         mfdPanelIndexSecondaryPlayer |-> mfdPanelIndexSecondaryPlayer,
         suggestedGear |-> suggestedGear,
         reads |-> loop.reads,
         trailingReads |->
             (IF o1 < b.length THEN <<o1>> ELSE <<>>)
             \o (IF o2 < b.length THEN <<o2>> ELSE <<>>)
             \o (IF o3 < b.length THEN <<o3>> ELSE <<>>)]

RECURSIVE lapDataLoop(_, _, _, _, _)
\* part_001 lines 192-202; reads records where each record was read
lapDataLoop(b, i, offset, acc, reads) ==
    IF i < NUM_CARS /\ RecordFits(b, offset, lapDataSize)
    THEN lapDataLoop(b, i + 1, offset + lapDataSize,
                     Append(acc, parseLapData(b, offset)),
                     Append(reads, Read(LapDataFieldWidths, offset)))
    ELSE [entries |-> acc, offset |-> offset, reads |-> reads]

\* part_001 lines 174-215
parseLapDataPacket(b) ==
    LET loop == lapDataLoop(b, 0, HEADER_SIZE, <<>>, <<>>)
        o == loop.offset
    IN  IF InRange(b, o, 1) /\ InRange(b, o + 1, 1)
        THEN [error |-> FALSE,
              lapData |-> loop.entries,
              timeTrialPBCarIdx |-> readUInt8(b, o),
              timeTrialRivalCarIdx |-> readUInt8(b, o + 1),
              reads |-> loop.reads,
              trailingReads |-> <<o, o + 1>>]
        ELSE [error |-> TRUE]

\* ---------------------------------------- the decoders on bounded buffers
MaxBufferLength == 1355
MaxSeed == 1

DecoderBuffers ==
    {Datagram(len, CAR_TELEMETRY, 0, NoLapData, NoTelemetry, sd) :
        len \in 0..MaxBufferLength, sd \in 0..MaxSeed}

notPacketLayer ==
    <<tracker, nextId, pc, call, emitted, lapSamples, sessionsStarted,
      sessionsEnded>>

serverState ==
    <<dispatched, latestTelemetryData, latestLapData, latestHeader,
      playerCarIndex, scenario, scenarioLog, beyondServer>>

\* the buffer to decode is drawn once
chooseBuffer ==
    /\ buffer = NoBuffer
    /\ buffer' \in DecoderBuffers
    /\ decoded' = NotDecoded
    /\ UNCHANGED <<notPacketLayer, serverState>>

decodeHeader ==
    /\ buffer # NoBuffer
    /\ decoded' = [op |-> "parsePacketHeader", result |-> parsePacketHeader(buffer)]
    /\ UNCHANGED <<notPacketLayer, serverState, buffer>>

decodeCarTelemetry ==
    /\ buffer # NoBuffer
    /\ decoded' = [op |-> "parseCarTelemetryPacket",
                   result |-> parseCarTelemetryPacket(buffer)]
    /\ UNCHANGED <<notPacketLayer, serverState, buffer>>

decodeLapData ==
    /\ buffer # NoBuffer
    /\ decoded' = [op |-> "parseLapDataPacket",
                   result |-> parseLapDataPacket(buffer)]
    /\ UNCHANGED <<notPacketLayer, serverState, buffer>>

DecoderNext ==
    \/ chooseBuffer
    \/ decodeHeader
    \/ decodeCarTelemetry
    \/ decodeLapData

DecoderSpec == Init /\ [][DecoderNext]_vars

\* ------------------------------------------------------------ the server
PlayerCarIndices == {0}

\* a lap distance strictly between 1 m and 2 m
ScenarioDistance == DistUnit + 1

\* the player's lap records sent by a car that is on a flying lap
ServerLapData ==
    {l \in LapDataInputs :
        /\ l.currentLapNum \in {1, 2}
        /\ l.currentLapInvalid = 0
        /\ l.driverStatus = FLYING_LAP
        /\ l.lapDistance \in {0, ScenarioDistance}}

\* complete telemetry datagrams, and ones cut off after the header
TelemetryDatagrams ==
    {Datagram(len, CAR_TELEMETRY, idx, NoLapData, t, 0) :
        len \in {HEADER_SIZE, CAR_TELEMETRY_PACKET_SIZE},
        idx \in PlayerCarIndices, t \in TelemetryInputs}

LapDatagrams ==
    {Datagram(LAP_DATA_PACKET_SIZE, LAP_DATA, idx, l, NoTelemetry, 0) :
        idx \in PlayerCarIndices, l \in ServerLapData}

OtherDatagrams ==
    {Datagram(HEADER_SIZE, SESSION, idx, NoLapData, NoTelemetry, 0) :
        idx \in PlayerCarIndices}

\* datagrams shorter than the header
ShortDatagrams ==
    {Datagram(len, id, idx, NoLapData, NoTelemetry, 0) :
        len \in {0, HEADER_SIZE - 1}, id \in {CAR_TELEMETRY, LAP_DATA},
        idx \in PlayerCarIndices}

ServerDatagrams ==
    TelemetryDatagrams \cup LapDatagrams \cup OtherDatagrams \cup ShortDatagrams

\* datagrams for the pairing of the frames: the locally-controlled car is
\* the first car, the last car or none (the largest value of the header's
\* byte), the packet is complete or cut off after its first car record, and
\* its type is any of the known types or an unknown one
NoCarIndex == 255
UnknownPacketId == 16

PairingCarIndices == {0, NUM_CARS - 1, NoCarIndex}

PairingLapData ==
    {l \in ServerLapData : l.lapDistance = 0 /\ l.lastLapTimeInMS = 0}

PairingTelemetryDatagrams ==
    {Datagram(len, CAR_TELEMETRY, idx, NoLapData, NoTelemetry, 0) :
        len \in {HEADER_SIZE + carTelemetryDataSize, CAR_TELEMETRY_PACKET_SIZE},
        idx \in PairingCarIndices}

PairingLapDatagrams ==
    {Datagram(len, LAP_DATA, idx, l, NoTelemetry, 0) :
        len \in {HEADER_SIZE + lapDataSize + 2, LAP_DATA_PACKET_SIZE},
        idx \in PairingCarIndices, l \in PairingLapData}

OtherPacketIds == ((0..15) \ {CAR_TELEMETRY, LAP_DATA}) \cup {UnknownPacketId}

PairingOtherDatagrams ==
    {Datagram(CAR_TELEMETRY_PACKET_SIZE, id, 0, NoLapData, NoTelemetry, 0) :
        id \in OtherPacketIds}

PairingDatagrams ==
    PairingTelemetryDatagrams \cup PairingLapDatagrams
        \cup PairingOtherDatagrams

AllDatagrams == ServerDatagrams \cup PairingDatagrams

\* the decoders applied to the datagrams of the server, tabulated
headerOf == [b \in AllDatagrams |-> parsePacketHeader(b)]

carTelemetryOf == [b \in AllDatagrams |-> parseCarTelemetryPacket(b)]

lapDataOf == [b \in AllDatagrams |-> parseLapDataPacket(b)]

pairing == <<latestTelemetryData, latestLapData, latestHeader, playerCarIndex>>

\* array[idx]: undefined beyond the end of the array
At(array, idx) == IF idx < Len(array) THEN Some(array[idx + 1]) ELSE Null

\* the steps of the end-to-end scenario, in order
ScenarioLength == 6

Matches(stage, kind, b) ==
    LET lap == /\ kind = "datagram"
               /\ b.packetId = LAP_DATA
               /\ b.length = LAP_DATA_PACKET_SIZE
        tel == /\ kind = "datagram"
               /\ b.packetId = CAR_TELEMETRY
               /\ b.length = CAR_TELEMETRY_PACKET_SIZE
    IN  CASE stage = 0 -> kind = "startSession"
          [] stage = 1 -> /\ lap
                          /\ b.lapData.currentLapNum = 1
                          /\ b.lapData.driverStatus = FLYING_LAP
                          /\ b.lapData.lapDistance = 0
          [] stage = 2 -> tel
          [] stage = 3 -> /\ lap
                          /\ b.lapData.currentLapNum = 1
                          /\ b.lapData.driverStatus = FLYING_LAP
                          /\ b.lapData.lapDistance = ScenarioDistance
          [] stage = 4 -> tel
          [] stage = 5 -> /\ lap
                          /\ b.lapData.currentLapNum = 2
                          /\ b.lapData.lastLapTimeInMS = 85000
                          /\ b.lapData.currentLapInvalid = 0
          [] OTHER -> FALSE

\* the observer of the scenario on a request or a datagram; an update of
\* the active session is suspended (pc' = "sample") once it has emitted the
\* events of its first segment
observe(kind, b) ==
    LET on == scenario >= 0 /\ Matches(scenario, kind, b)
        events == IF kind = "startSession" \/ pc' = "sample"
                  THEN emitted' ELSE <<>>
    IN  /\ scenario' = IF on THEN scenario + 1 ELSE 0 - 1
        /\ scenarioLog' = IF on THEN scenarioLog \o events ELSE <<>>

\* the observer of the scenario on the continuation of an update
observeContinuation ==
    /\ scenario' = scenario
    /\ scenarioLog' =
          IF scenario >= 0
          THEN scenarioLog \o SubSeq(emitted', Len(emitted) + 1, Len(emitted'))
          ELSE <<>>

\* the observers of the frames: a handler took frame (or undefined) of the
\* given kind at car index idx
took(kind, frame, idx) ==
    /\ latestCars' =
          [latestCars EXCEPT ![kind] = IF frame # Null THEN Some(idx) ELSE Null]
    /\ seen' = [seen EXCEPT ![kind] = @ \/ frame # Null]

\* mutant: the packet types without a case of their own fall into the
\* telemetry case
eventOfDefaultTelemetry(packetId) ==
    CASE packetId = CAR_TELEMETRY -> "telemetry"
      [] packetId = LAP_DATA -> "lapData"
      [] packetId = SESSION -> "session"
      [] packetId = 4 -> "participants"
      [] packetId = 0 -> "motion"
      [] packetId = 3 -> "event"
      [] packetId = 5 -> "carSetups"
      [] packetId = 7 -> "carStatus"
      [] packetId = 14 -> "timeTrial"
      [] packetId = 15 -> "lapPositions"
      [] OTHER -> "telemetry"

\* udpListener.ts lines 27-71: the event emitted for a packet type
eventOf(packetId) ==
    CASE packetId = CAR_TELEMETRY -> "telemetry"
      [] packetId = LAP_DATA -> "lapData"
      [] packetId = SESSION -> "session"
      [] packetId = 4 -> "participants"
      [] packetId = 0 -> "motion"
      [] packetId = 3 -> "event"
      [] packetId = 5 -> "carSetups"
      [] packetId = 7 -> "carStatus"
      [] packetId = 14 -> "timeTrial"
      [] packetId = 15 -> "lapPositions"
      [] OTHER -> "unknownPacket"

\* part_001 lines 455-461 and 493-499: the call of processTelemetryData
forward(t, l) ==
    IF SessionIsActive(currentSession)
    THEN processBeginWith(Val(l), Val(t))
    ELSE processNoSession

\* part_001 lines 421-465; reading playerData.speed of an undefined
\* playerData (line 441) throws, which ends the handler in its catch
onTelemetry(b, header) ==
    LET telemetryData == carTelemetryOf[b]
        playerData == At(telemetryData.carTelemetryData, header.playerCarIndex)
    IN  /\ playerCarIndex' = header.playerCarIndex
        /\ latestTelemetryData' = playerData
        /\ latestHeader' = Some(header)
        /\ UNCHANGED latestLapData
        /\ took("telemetry", playerData, header.playerCarIndex)
        /\ IF playerData # Null /\ latestLapData # Null
           THEN forward(playerData, latestLapData)
           ELSE UNCHANGED notPacketLayer

\* mutant: the lap-data handler stores the record without forwarding it
onLapDataStoresOnly(b, header) ==
    LET lapData == lapDataOf[b]
    IN  IF lapData.error
        THEN UNCHANGED <<pairing, notPacketLayer, seen, latestCars>>
        ELSE /\ latestLapData' = At(lapData.lapData, playerCarIndex)
             /\ UNCHANGED <<latestTelemetryData, latestHeader, playerCarIndex>>
             /\ took("lapData", At(lapData.lapData, playerCarIndex),
                     playerCarIndex)
             /\ UNCHANGED notPacketLayer

\* part_001 lines 468-503; a decoder error (line 470) and reading
\* playerLapData.currentLapNum of an undefined playerLapData (line 482)
\* end the handler in its catch
onLapData(b, header) ==
    LET lapData == lapDataOf[b]
    IN  IF lapData.error
        THEN UNCHANGED <<pairing, notPacketLayer, seen, latestCars>>
        ELSE LET playerLapData == At(lapData.lapData, playerCarIndex)
             IN  /\ latestLapData' = playerLapData
                 /\ UNCHANGED <<latestTelemetryData, latestHeader, playerCarIndex>>
                 /\ took("lapData", playerLapData, playerCarIndex)
                 /\ IF /\ playerLapData # Null
                       /\ latestTelemetryData # Null
                       /\ latestHeader # Null
                    THEN forward(latestTelemetryData, playerLapData)
                    ELSE UNCHANGED notPacketLayer

\* udpListener.ts lines 19-76 with the listeners of part_001 lines 421-514
onMessage(b) ==
    /\ NoUpdateSuspended
    /\ buffer' = b
    /\ UNCHANGED decoded
    /\ LET header == headerOf[b]
       IN  IF header.error
           THEN /\ dispatched' = "error"
                /\ UNCHANGED <<pairing, notPacketLayer, seen, latestCars>>
           ELSE /\ dispatched' = eventOf(header.packetId)
                /\ IF dispatched' = "telemetry"
                   THEN onTelemetry(b, header)
                   ELSE IF dispatched' = "lapData"
                   THEN onLapData(b, header)
                   ELSE UNCHANGED <<pairing, notPacketLayer, seen, latestCars>>
    /\ observe("datagram", b)
    /\ response' = NoResponse
    /\ UNCHANGED unobserved

\* a session request: no datagram is handled in this step
noDatagram ==
    /\ buffer' = NoBuffer
    /\ dispatched' = "none"
    /\ UNCHANGED <<decoded, pairing, latestCars, unobserved>>

\* the start of a session is a (re)start for the observer of the frames
sessionStart ==
    (startSessionOk /\ seen' = [telemetry |-> FALSE, lapData |-> FALSE]
                    /\ observe("startSession", NoBuffer))
    \/ (startSessionFail /\ UNCHANGED seen /\ observe("request", NoBuffer))

sessionEnd ==
    /\ endSessionOk \/ endSessionFail
    /\ UNCHANGED seen
    /\ observe("request", NoBuffer)

\* the reply of a REST endpoint: the body of the catch carries the message
\* of the error thrown by the tracker
Reply == Some([success |-> call'.result = "ok",
               error |-> IF call'.result = "ok" THEN "" ELSE call'.result])

\* part_001 lines 794-842: POST /api/session/start
restStartSession ==
    /\ sessionStart
    /\ noDatagram
    /\ response' = Response("POST /api/session/start", Reply)

\* part_001 lines 845-878: POST /api/session/end
restEndSession ==
    /\ sessionEnd
    /\ noDatagram
    /\ response' = Response("POST /api/session/end", Reply)

\* part_001 lines 697-707: the WebSocket action startSession; a rejection
\* goes to console.error and nothing is sent to the client
wsStartSession ==
    /\ sessionStart
    /\ noDatagram
    /\ response' = Response("ws startSession", Null)

\* part_001 lines 708-710: the WebSocket action endSession
wsEndSession ==
    /\ sessionEnd
    /\ noDatagram
    /\ response' = Response("ws endSession", Null)

\* the continuation of an update: no datagram or request is involved
continuation ==
    /\ processSample
    /\ UNCHANGED <<buffer, decoded, dispatched, pairing>>
    /\ observeContinuation
    /\ UNCHANGED beyondServer

ServerNext ==
    \/ \E b \in ServerDatagrams : onMessage(b)
    \/ restStartSession
    \/ restEndSession
    \/ wsStartSession
    \/ wsEndSession
    \/ continuation

ServerSpec == Init /\ [][ServerNext]_vars

\* the server fed with the datagrams for the pairing of the frames
PairingNext ==
    \/ \E b \in PairingDatagrams : onMessage(b)
    \/ restStartSession
    \/ restEndSession
    \/ continuation

PairingSpec == Init /\ [][PairingNext]_vars

\* ------------------------------------------- the frontend's WebSocket hook
\* useTelemetry.ts lines 212-299.  A step is one callback of the browser: a
\* click on one of the two buttons of the ConnectionStatus component, an
\* event of a WebSocket object, or a timer; or the passing of a second.
\* A WebSocket object or a timer gets the smallest identifier not in use; a
\* reference to an object that has fired its close event, or to a timer
\* that has run, is kept as a reference to Gone.
maxReconnectAttempts == 5

\* the connection attempts that can be under way at a time, each a WebSocket
\* object or the timer that follows its close event
MaxChains == 2

\* the time between two steps of the clock, in ms
TickMs == 1000

Gone == 0

notFrontend ==
    <<notPacketLayer, buffer, decoded, dispatched, latestTelemetryData,
      latestLapData, latestHeader, playerCarIndex, scenario, scenarioLog,
      seen, latestCars, response, startedLaps, sessionHistory, persistence>>

Min(a, b) == IF a < b THEN a ELSE b

\* mutant: the delay grows linearly
BackoffLinear(n) == Min(1000 * (n + 1), 30000)

\* lines 251-254
Backoff(n) == Min(1000 * 2 ^ n, 30000)

FreeId(used) == CHOOSE i \in 1..(Cardinality(used) + 1) :
                    /\ i \notin {u.id : u \in used}
                    /\ \A j \in 1..(i - 1) : j \in {u.id : u \in used}

\* WebSocket.readyState of the object ws.current refers to
readyState(id) ==
    IF \E s \in sockets : s.id = id
    THEN (CHOOSE s \in sockets : s.id = id).state
    ELSE "CLOSED"

\* lines 223-269: connect()
connect ==
    IF ws # Null /\ readyState(Val(ws)) = "OPEN"
    THEN UNCHANGED <<ws, connectionStatus, sockets>>
    ELSE /\ connectionStatus' = "connecting"
         /\ sockets' = sockets \cup {[id |-> FreeId(sockets),
                                      state |-> "CONNECTING",
                                      opened |-> FALSE]}
         /\ ws' = Some(FreeId(sockets))

\* ConnectionStatus.tsx: the Connect button is shown unless the status is
\* connected and is disabled while it is connecting
clickConnect ==
    /\ connectionStatus \in {"disconnected", "error"}
    /\ Cardinality(sockets) + Cardinality(timers) < MaxChains
    /\ connect
    /\ UNCHANGED <<reconnectTimeoutId, reconnectAttempts, timers,
                   attemptsSinceOpen, scheduled, notFrontend>>

\* lines 271-284: disconnect(), reached from the Disconnect button, which
\* is shown while the status is connected
clickDisconnect ==
    /\ connectionStatus = "connected"
    /\ timers' = IF reconnectTimeoutId = Null
                 THEN timers
                 ELSE {t \in timers : t.id # Val(reconnectTimeoutId)}
    /\ reconnectTimeoutId' = Null
    /\ sockets' = IF ws = Null
                  THEN sockets
                  ELSE {IF s.id = Val(ws) THEN [s EXCEPT !.state = "CLOSING"]
                                          ELSE s : s \in sockets}
    /\ ws' = Null
    /\ connectionStatus' = "disconnected"
    /\ reconnectAttempts' = 0
    /\ UNCHANGED <<attemptsSinceOpen, scheduled, notFrontend>>

\* lines 231-234: onopen
onopen ==
    \E s \in sockets :
        /\ s.state = "CONNECTING"
        /\ sockets' = (sockets \ {s})
                       \cup {[s EXCEPT !.state = "OPEN", !.opened = TRUE]}
        /\ connectionStatus' = "connected"
        /\ reconnectAttempts' = 0
        /\ attemptsSinceOpen' = 0
        /\ UNCHANGED <<ws, reconnectTimeoutId, timers, scheduled, notFrontend>>

\* the close event of s can report a clean close only for a connection
\* that had been established
CanClose(s, wasClean) == wasClean => s.opened

\* lines 245-261: onclose
onclose ==
    \E s \in sockets, wasClean \in BOOLEAN :
        /\ CanClose(s, wasClean)
        /\ sockets' = sockets \ {s}
        /\ ws' = IF ws = Some(s.id) THEN Some(Gone) ELSE ws
        /\ connectionStatus' = "disconnected"
        /\ IF ~wasClean /\ reconnectAttempts < maxReconnectAttempts
           THEN /\ timers' = timers \cup
                       {[id |-> FreeId(timers),
                         remaining |-> Backoff(reconnectAttempts)]}
                /\ reconnectTimeoutId' = Some(FreeId(timers))
                /\ scheduled' = Some([timeout |-> Backoff(reconnectAttempts),
                                      n |-> attemptsSinceOpen])
           ELSE UNCHANGED <<timers, reconnectTimeoutId, scheduled>>
        /\ UNCHANGED <<reconnectAttempts, attemptsSinceOpen, notFrontend>>

\* lines 263-265: onerror
onerror ==
    \E s \in sockets :
        /\ s.state \in {"CONNECTING", "OPEN"}
        /\ connectionStatus # "error"
        /\ connectionStatus' = "error"
        /\ UNCHANGED <<ws, reconnectTimeoutId, reconnectAttempts, sockets,
                       timers, attemptsSinceOpen, scheduled, notFrontend>>

\* lines 256-259: the callback of setTimeout, run when its delay has passed
reconnect ==
    \E t \in timers :
        /\ t.remaining = 0
        /\ timers' = timers \ {t}
        /\ reconnectTimeoutId' =
               IF reconnectTimeoutId = Some(t.id) THEN Some(Gone)
                                                  ELSE reconnectTimeoutId
        /\ reconnectAttempts' = reconnectAttempts + 1
        /\ attemptsSinceOpen' = attemptsSinceOpen + 1
        /\ connect
        /\ UNCHANGED <<scheduled, notFrontend>>

\* a second passes; a timer whose delay has passed runs before the next
\* second does
tick ==
    /\ timers # {}
    /\ \A t \in timers : t.remaining > 0
    /\ timers' = {[t EXCEPT !.remaining = t.remaining - TickMs] : t \in timers}
    /\ UNCHANGED <<ws, reconnectTimeoutId, reconnectAttempts, connectionStatus,
                   sockets, attemptsSinceOpen, scheduled, notFrontend>>

ReconnectNext ==
    \/ clickConnect
    \/ clickDisconnect
    \/ onopen
    \/ onclose
    \/ onerror
    \/ reconnect
    \/ tick

ReconnectSpec == Init /\ [][ReconnectNext]_vars

\* ------------------------------- the tracker with the laps of the session
\* The tracker driven directly, as in Spec, with startedLaps keeping the lap
\* numbers of the lapStarted events of the current session: what the laps
\* table holds for the session once the listener of lapStarted has saved
\* each lap (part_001 lines 533-541).
HistoryLapData ==
    {l \in LapDataInputs :
        /\ l.currentLapInvalid = 0
        /\ l.driverStatus \in {0, FLYING_LAP}
        /\ l.lapDistance \in {0, ScenarioDistance}}

\* the events emitted by the step
NewEvents ==
    IF pc = "idle"
    THEN emitted'
    ELSE SubSeq(emitted', Len(emitted) + 1, Len(emitted'))

LapsStarted(es) ==
    {es[k].payload.lapNumber : k \in {i \in 1..Len(es) : es[i].type = "lapStarted"}}

\* the history after the event e
Recorded(h, e) ==
    CASE e.type = "sessionStarted" ->
             [open |-> TRUE, lapIds |-> {}, lapsCompleted |-> 0,
              lapReported |-> FALSE]
      [] e.type = "sessionEnded" -> [h EXCEPT !.open = FALSE]
      [] e.type = "lapStarted" ->
             [h EXCEPT !.lapIds = @ \cup {e.payload.id}]
      [] e.type = "lapCompleted" -> [h EXCEPT !.lapsCompleted = @ + 1]
      [] OTHER -> h

RECURSIVE RecordedAll(_, _)
RecordedAll(h, es) ==
    IF es = <<>> THEN h ELSE RecordedAll(Recorded(h, Head(es)), Tail(es))

\* the step begins an update that reports a lap number above 0
ReportsLap == pc = "idle" /\ pc' = "sample" /\ call'.lapData.currentLapNum > 0

remember ==
    /\ startedLaps' =
          (IF sessionsStarted' # sessionsStarted THEN {} ELSE startedLaps)
          \cup LapsStarted(NewEvents)
    /\ sessionHistory' =
          [RecordedAll(sessionHistory, NewEvents)
              EXCEPT !.lapReported = @ \/ ReportsLap]
    /\ UNCHANGED <<buffer, decoded, dispatched, latestTelemetryData,
                   latestLapData, latestHeader, playerCarIndex, scenario,
                   scenarioLog, seen, latestCars, response, frontend,
                   persistence>>

HistoryNext ==
    \/ startSessionFail /\ remember
    \/ startSessionOk /\ remember
    \/ endSessionFail /\ remember
    \/ endSessionOk /\ remember
    \/ processNoSession /\ remember
    \/ (\E l \in HistoryLapData, t \in TelemetryInputs : processBeginWith(l, t))
          /\ remember
    \/ processSample /\ remember

HistorySpec == Init /\ [][HistoryNext]_vars

\* ------------------------------ the server's persistence of the tracker's
\* events: part_001 lines 517-641 with databaseService.ts lines 94-186.
\* A step is one run of the event loop: either a call of the tracker that
\* emits an event, with the part of the event's listener that runs before
\* its first await of a database request, or the completion of a request or
\* of a timer, with the part of the suspended listener that runs until its
\* next one.  The events arrive in the orders the tracker emits them; the
\* sessions table and the listener of sessionStarted, which only writes to
\* it, are left out.  Of two listeners in the same position only one is
\* kept pending.
BATCH_SIZE == 20

chunkSize == 10

maxRetries == 3

\* the laps referred to at a time, the data points in the buffer at a time,
\* the listeners suspended at a time, and those of them that are suspended
\* in a flush
MaxLaps == 2

MaxBuffered == 21

MaxPending == 2

MaxFlushes == 1

\* the data points in the buffer at a time and the laps referred to at a
\* time when no flush has a second chunk
MaxRetried == 2

MaxRetriedLaps == 1

notPersistence ==
    <<notPacketLayer, buffer, decoded, dispatched, latestTelemetryData,
      latestLapData, latestHeader, playerCarIndex, scenario, scenarioLog,
      seen, latestCars, response, startedLaps, sessionHistory, frontend>>

\* a data point of the buffer, of the lap lapId
Stored(lapId) == [lapId |-> lapId]

Max(a, b) == IF a > b THEN a ELSE b

LapIds(dataPoints) == {dataPoints[k].lapId : k \in 1..Len(dataPoints)}

\* a suspended listener: the event it handles, the await it is suspended at,
\* the lap of the event, the data points of its flush (the copy of the
\* buffer it took), the index of its chunk, its attempt, the code of the
\* error of its last attempt, and whether the data points the buffer held
\* when its flush was called are still in the buffer: they are its first
\* ones until the buffer is cleared
Handler(name, at, lap) ==
    [handler |-> name, at |-> at, lap |-> lap, dataPoints |-> <<>>, i |-> 0,
     attempt |-> 0, code |-> "none", fresh |-> FALSE]

Flushes(hs) == {h \in hs : h.at \in {"chunk", "pause", "save", "wait"}}

\* the copies of the buffer that the flushes of hs still save chunk by chunk
\* reach as far as this into the buffer
Covered(hs) ==
    LET lens == {Len(h.dataPoints) :
                    h \in {g \in hs : g.fresh /\ g.at \in {"chunk", "pause"}}}
    IN  IF lens = {} THEN 0 ELSE CHOOSE m \in lens : \A n \in lens : n <= m

\* how a call of saveTelemetryData can end for its caller (databaseService.ts
\* lines 141-186): without an error (a duplicate-key error 23505 is
\* swallowed at line 177), with a foreign-key error, or with a timeout; the
\* database decides
Outcomes == {"ok", "23503", "timeout"}

\* the laps that the tracker, a data point or a suspended listener refers to
UsedLaps ==
    (IF emitter.lap = Null THEN {} ELSE {Val(emitter.lap)})
        \cup LapIds(telemetryBuffer)
        \cup UNION {LapIds(h.dataPoints) : h \in pending}
        \cup {Val(h.lap) : h \in {g \in pending : g.lap # Null}}

\* databaseService.ts lines 583-589, generateId: an id that nothing refers to
FreeLap ==
    CHOOSE l \in 1..MaxLaps :
        l \notin UsedLaps /\ \A k \in 1..(l - 1) : k \in UsedLaps

\* databaseService.ts lines 141-186: the call is made, with data points
\* that are the first upTo ones of the buffer
saveTelemetryData(dataPoints, upTo) ==
    /\ request' = Some(dataPoints)
    /\ passed' = Max(passed, upTo)

noCall == request' = Null /\ UNCHANGED passed

\* this.telemetryBuffer.length = 0 (lines 578, 619, 637) while the
\* listeners of rest stay suspended
clearBuffer(rest) ==
    /\ lost' = (lost \/ Len(telemetryBuffer) > Max(passed, Covered(rest)))
    /\ telemetryBuffer' = <<>>
    /\ passed' = 0
    /\ request' = Null
    /\ pending' = {[h EXCEPT !.fresh = FALSE] : h \in rest}

Chunk(dataPoints, i) ==
    SubSeq(dataPoints, i + 1, Min(i + chunkSize, Len(dataPoints)))

\* lines 587-608 from index i on, then line 578: the next chunk is saved,
\* or the loop is over and flushTelemetryBuffer clears the buffer
flushTelemetryInChunks(h, i, rest, buf) ==
    IF i < Len(h.dataPoints)
    THEN /\ saveTelemetryData(
                Chunk(h.dataPoints, i),
                IF h.fresh THEN Min(i + chunkSize, Len(h.dataPoints)) ELSE 0)
         /\ pending' = rest \cup {[h EXCEPT !.at = "chunk", !.i = i]}
         /\ telemetryBuffer' = buf
         /\ UNCHANGED lost
    ELSE clearBuffer(rest)

\* lines 572-582, called by the listener of the event name with buf in the
\* buffer
flushTelemetryBuffer(name, rest, buf) ==
    IF buf = <<>>
    THEN /\ noCall
         /\ pending' = rest
         /\ UNCHANGED <<telemetryBuffer, lost>>
    ELSE /\ Cardinality(Flushes(rest)) < MaxFlushes
         /\ flushTelemetryInChunks(
             [Handler(name, "chunk", Null) EXCEPT !.dataPoints = buf,
                                                  !.fresh = TRUE],
             0, rest, buf)

\* lines 616-619: the k-th attempt; saveTelemetryData returns at once for
\* an empty array (databaseService.ts line 142)
attempt(h, k, rest) ==
    IF telemetryBuffer = <<>>
    THEN clearBuffer(rest)
    ELSE /\ saveTelemetryData(telemetryBuffer, Len(telemetryBuffer))
         /\ pending' = rest \cup
               {[h EXCEPT !.at = "save", !.attempt = k,
                          !.dataPoints = telemetryBuffer]}
         /\ UNCHANGED <<telemetryBuffer, lost>>

\* databaseService.ts lines 462-500: sessionStarted
onSessionStarted ==
    /\ ~emitter.session
    /\ emitter' = [emitter EXCEPT !.session = TRUE]
    /\ noCall
    /\ UNCHANGED <<telemetryBuffer, pending, lost>>

\* databaseService.ts lines 583-596 and part_001 lines 537-543: the lap is
\* created and saveLap is called
onLapStarted ==
    LET lap == Some(FreeLap)
        h == Handler("lapStarted", "saveLap", lap)
    IN  /\ emitter.session
        /\ Cardinality(UsedLaps) < MaxLaps
        /\ Cardinality(pending) < MaxPending
        /\ emitter' = [emitter EXCEPT !.lap = lap]
        /\ pending' = pending \cup {h}
        /\ noCall
        /\ UNCHANGED <<telemetryBuffer, lost>>

\* databaseService.ts lines 611-652 and part_001 lines 558-565: the data
\* point is pushed
onTelemetryStored ==
    LET dataPoint == Stored(Val(emitter.lap))
        pushed == Append(telemetryBuffer, dataPoint)
    IN  /\ emitter.session
        /\ emitter.lap # Null
        /\ UNCHANGED emitter
        /\ IF Len(pushed) >= BATCH_SIZE
           THEN /\ Cardinality(pending) < MaxPending
                /\ flushTelemetryBuffer("telemetryStored", pending, pushed)
           ELSE /\ telemetryBuffer' = pushed
                /\ noCall
                /\ UNCHANGED <<pending, lost>>

\* part_001 lines 527-535: updateSession is called
onSessionEnded(others) ==
    LET h == Handler("sessionEnded", "updateSession", Null)
    IN  /\ h \notin others
        /\ Cardinality(others) < MaxPending
        /\ emitter' = [emitter EXCEPT !.session = FALSE, !.lap = Null]
        /\ pending' = others \cup {h}
        /\ noCall
        /\ UNCHANGED <<telemetryBuffer, lost>>

\* databaseService.ts lines 570-581 with lines 505-522, and part_001 lines
\* 545-556: the lap is completed, updateLap is called, and the session is
\* ended
onLapCompleted ==
    /\ emitter.session
    /\ emitter.lap # Null
    /\ onSessionEnded(
          pending \cup {Handler("lapCompleted", "updateLap", emitter.lap)})

\* databaseService.ts lines 505-522: the session is ended by a request
endSessionByRequest ==
    /\ emitter.session
    /\ onSessionEnded(pending)

\* part_001 lines 539-542: saveLap has inserted the row, or has failed
saveLapDone(h) ==
    /\ h \in pending
    /\ h.at = "saveLap"
    /\ pending' = pending \ {h}
    /\ noCall
    /\ UNCHANGED <<telemetryBuffer, emitter, lost>>

\* part_001 lines 546-554: updateLap has ended, the delay begins
updateLapDone(h, ok) ==
    /\ h \in pending
    /\ h.at = "updateLap"
    /\ pending' =
          (pending \ {h}) \cup (IF ok THEN {[h EXCEPT !.at = "delay"]} ELSE {})
    /\ noCall
    /\ UNCHANGED <<telemetryBuffer, emitter, lost>>

\* part_001 lines 528-534: updateSession has ended, the buffer is flushed
updateSessionDone(h, ok) ==
    /\ h \in pending
    /\ h.at = "updateSession"
    /\ IF ok
       THEN flushTelemetryBuffer("sessionEnded", pending \ {h}, telemetryBuffer)
       ELSE /\ pending' = pending \ {h}
            /\ noCall
            /\ UNCHANGED <<telemetryBuffer, lost>>
    /\ UNCHANGED emitter

\* part_001 lines 550-551 and 613-619: the delay of 100 ms is over and
\* flushTelemetryBufferWithRetry is called
delayDone(h) ==
    /\ h \in pending
    /\ h.at = "delay"
    /\ IF telemetryBuffer = <<>>
       THEN /\ pending' = pending \ {h}
            /\ noCall
            /\ UNCHANGED <<telemetryBuffer, lost>>
       ELSE /\ Cardinality(Flushes(pending)) < MaxFlushes
            /\ attempt([h EXCEPT !.fresh = TRUE], 1, pending \ {h})
    /\ UNCHANGED emitter

\* mutant: the buffer is kept when the last attempt has failed
saveDoneKeepsBuffer(h, outcome) ==
    /\ h \in pending
    /\ h.at = "save"
    /\ outcome \in Outcomes
    /\ LET rest == pending \ {h}
       IN  CASE outcome = "ok" ->
                    clearBuffer(rest)
             [] outcome # "ok" /\ h.attempt = maxRetries ->
                    /\ noCall
                    /\ pending' = rest
                    /\ UNCHANGED <<telemetryBuffer, lost>>
             [] outcome = "23503" /\ h.attempt < maxRetries ->
                    /\ noCall
                    /\ pending' = rest \cup
                          {[h EXCEPT !.at = "wait", !.code = outcome,
                                     !.dataPoints = <<>>]}
                    /\ UNCHANGED <<telemetryBuffer, lost>>
             [] OTHER ->
                    attempt([h EXCEPT !.code = outcome], h.attempt + 1, rest)
    /\ UNCHANGED emitter

\* part_001 lines 616-639: the call of an attempt has ended
saveDone(h, outcome) ==
    /\ h \in pending
    /\ h.at = "save"
    /\ outcome \in Outcomes
    /\ LET rest == pending \ {h}
       IN  CASE outcome = "ok" ->
                    clearBuffer(rest)
             [] outcome # "ok" /\ h.attempt = maxRetries ->
                    clearBuffer(rest)
             [] outcome = "23503" /\ h.attempt < maxRetries ->
                    /\ noCall
                    /\ pending' = rest \cup
                          {[h EXCEPT !.at = "wait", !.code = outcome,
                                     !.dataPoints = <<>>]}
                    /\ UNCHANGED <<telemetryBuffer, lost>>
             [] OTHER ->
                    attempt([h EXCEPT !.code = outcome], h.attempt + 1, rest)
    /\ UNCHANGED emitter

\* part_001 lines 631-633: the wait of 200 ms is over
waitDone(h) ==
    /\ h \in pending
    /\ h.at = "wait"
    /\ attempt(h, h.attempt + 1, pending \ {h})
    /\ UNCHANGED emitter

\* part_001 lines 592-607: the call for a chunk has ended; after a timeout
\* the loop goes on at once, otherwise after a pause unless the chunk was
\* the last
chunkDone(h, outcome) ==
    /\ h \in pending
    /\ h.at = "chunk"
    /\ outcome \in Outcomes
    /\ IF outcome # "timeout" /\ h.i + chunkSize < Len(h.dataPoints)
       THEN /\ pending' =
                  (pending \ {h})
                      \cup {[h EXCEPT !.at = "pause", !.code = outcome]}
            /\ noCall
            /\ UNCHANGED <<telemetryBuffer, lost>>
       ELSE flushTelemetryInChunks([h EXCEPT !.code = outcome],
                                   h.i + chunkSize, pending \ {h},
                                   telemetryBuffer)
    /\ UNCHANGED emitter

\* part_001 lines 605-607: the pause of 50 ms is over
pauseDone(h) ==
    /\ h \in pending
    /\ h.at = "pause"
    /\ flushTelemetryInChunks(h, h.i + chunkSize, pending \ {h},
                              telemetryBuffer)
    /\ UNCHANGED emitter

FlushNext ==
    \/ onSessionStarted /\ UNCHANGED notPersistence
    \/ onLapStarted /\ UNCHANGED notPersistence
    \/ /\ Len(telemetryBuffer) < MaxBuffered
       /\ onTelemetryStored
       /\ UNCHANGED notPersistence
    \/ onLapCompleted /\ UNCHANGED notPersistence
    \/ endSessionByRequest /\ UNCHANGED notPersistence
    \/ (\E h \in pending : saveLapDone(h)) /\ UNCHANGED notPersistence
    \/ (\E h \in pending, ok \in BOOLEAN : updateLapDone(h, ok))
          /\ UNCHANGED notPersistence
    \/ (\E h \in pending, ok \in BOOLEAN : updateSessionDone(h, ok))
          /\ UNCHANGED notPersistence
    \/ (\E h \in pending : delayDone(h)) /\ UNCHANGED notPersistence
    \/ (\E h \in pending, outcome \in Outcomes :
            saveDone(h, outcome))
          /\ UNCHANGED notPersistence
    \/ (\E h \in pending : waitDone(h)) /\ UNCHANGED notPersistence
    \/ (\E h \in pending, outcome \in Outcomes :
            chunkDone(h, outcome))
          /\ UNCHANGED notPersistence
    \/ (\E h \in pending : pauseDone(h)) /\ UNCHANGED notPersistence

FlushSpec == Init /\ [][FlushNext]_vars

\* the same with fewer data points than a chunk holds in the buffer
RetryNext ==
    \/ onSessionStarted /\ UNCHANGED notPersistence
    \/ /\ Cardinality(UsedLaps) < MaxRetriedLaps
       /\ onLapStarted
       /\ UNCHANGED notPersistence
    \/ /\ Len(telemetryBuffer) < MaxRetried
       /\ onTelemetryStored
       /\ UNCHANGED notPersistence
    \/ onLapCompleted /\ UNCHANGED notPersistence
    \/ endSessionByRequest /\ UNCHANGED notPersistence
    \/ (\E h \in pending : saveLapDone(h)) /\ UNCHANGED notPersistence
    \/ (\E h \in pending, ok \in BOOLEAN : updateLapDone(h, ok))
          /\ UNCHANGED notPersistence
    \/ (\E h \in pending, ok \in BOOLEAN : updateSessionDone(h, ok))
          /\ UNCHANGED notPersistence
    \/ (\E h \in pending : delayDone(h)) /\ UNCHANGED notPersistence
    \/ (\E h \in pending, outcome \in Outcomes :
            saveDone(h, outcome))
          /\ UNCHANGED notPersistence
    \/ (\E h \in pending : waitDone(h)) /\ UNCHANGED notPersistence
    \/ (\E h \in pending, outcome \in Outcomes :
            chunkDone(h, outcome))
          /\ UNCHANGED notPersistence

RetrySpec == Init /\ [][RetryNext]_vars

\* the listener of lapCompleted for the lap l is suspended in
\* flushTelemetryBufferWithRetry
Retrying(l) ==
    \E h \in pending : h.at \in {"save", "wait"} /\ h.lap = Some(l)

\* every call of saveTelemetryData returns or throws and every timer runs
\* out, and the event loop then resumes the listener that awaits it
RetryLiveSpec ==
    /\ RetrySpec
    /\ \A l \in 1..MaxLaps :
          WF_vars(\E h \in pending :
                     /\ h.lap = Some(l)
                     /\ \/ \E outcome \in Outcomes : saveDone(h, outcome)
                        \/ waitDone(h)
                     /\ UNCHANGED notPersistence)

\* ------------------------------------------------ vocabulary of the claims
Types(es) == [i \in 1..Len(es) |-> es[i].type]

Count(es, type) == Cardinality({i \in 1..Len(es) : es[i].type = type})

\* the step is a call of op made while no call is suspended
Calls(op) == pc = "idle" /\ call'.op = op

LifecycleState ==
    <<currentSession, currentLap, lastLapNumber, isInFlyingLap, lastStoredDistance>>

\* the arguments of an update fire the lap-change protocol
ChangesLap(l) == l.currentLapNum > 0 /\ l.currentLapNum # lastLapNumber

\* C1: at most one session is active at any time: the tracker holds no
\* session or one active session, the sessionStarted events outnumber the
\* sessionEnded events by one exactly while a session is active and by none
\* otherwise, so no second sessionStarted precedes the sessionEnded of the
\* previous session.
C1_AtMostOneActiveSession ==
    /\ currentSession = Null \/ Val(currentSession).isActive
    /\ sessionsStarted - sessionsEnded = IF SessionIsActive(currentSession) THEN 1 ELSE 0

C1_Witness ==
    /\ SessionIsActive(currentSession)
    /\ sessionsStarted = 2
    /\ sessionsEnded = 1

\* C2: startSession called while a session is active fails with
\* SessionAlreadyActive, emits nothing and leaves the active session, the
\* current lap, lastLapNumber, isInFlyingLap and lastStoredDistance unchanged,
\* however many updates were processed since the session started.
C2_StartWhileActiveFails ==
    [][(Calls("startSession") /\ SessionIsActive(currentSession))
        => /\ call'.result = "SessionAlreadyActive"
           /\ emitted' = <<>>
           /\ sessionsStarted' = sessionsStarted
           /\ UNCHANGED LifecycleState]_vars

C2_Witness ==
    /\ call.op = "startSession"
    /\ call.result = "SessionAlreadyActive"
    /\ currentLap # Null
    /\ Len(lapSamples) >= 2

\* C3: endSession called while no session is active fails with
\* NoActiveSession, emits nothing and leaves the tracker unchanged: with no
\* startSession before it, as a second endSession, and after the session was
\* ended automatically by a lap completion.
C3_EndWithoutSessionFails ==
    [][(Calls("endSession") /\ ~SessionIsActive(currentSession))
        => /\ call'.result = "NoActiveSession"
           /\ emitted' = <<>>
           /\ sessionsEnded' = sessionsEnded
           /\ UNCHANGED tracker]_vars

\* lastLapNumber > 0 without a session: the session was ended by a lap
\* completion (an explicit endSession leaves lastLapNumber = 0)
C3_Witness ==
    /\ call.op = "endSession"
    /\ call.result = "NoActiveSession"
    /\ sessionsEnded >= 1
    /\ lastLapNumber > 0

\* C4: with a session active and a current lap, an update whose
\* currentLapNum is greater than 0, differs from lastLapNumber and carries
\* lastLapTimeInMS > 0 emits lapCompleted and then sessionEnded and nothing
\* else, and leaves no active session and no current lap.
C4_LapCompletionEndsSession ==
    [][/\ (/\ Calls("processTelemetryData")
           /\ SessionIsActive(currentSession)
           /\ currentLap # Null
           /\ ChangesLap(call'.lapData)
           /\ call'.lapData.lastLapTimeInMS > 0)
          => /\ Types(emitted') = <<"lapCompleted", "sessionEnded">>
             /\ ~SessionIsActive(currentSession')
             /\ currentLap' = Null
             /\ pc' = "sample"
       /\ (pc = "sample" /\ ~SessionIsActive(currentSession))
          => /\ emitted' = emitted
             /\ ~SessionIsActive(currentSession')
             /\ currentLap' = Null
             /\ pc' = "idle"]_vars

C4_Witness ==
    /\ pc = "idle"
    /\ call.op = "processTelemetryData"
    /\ Types(emitted) = <<"lapCompleted", "sessionEnded">>
    /\ ~SessionIsActive(currentSession)
    /\ currentLap = Null

\* C5: the distanceFromStart values of the telemetryStored events of one lap
\* are strictly increasing, consecutive ones at least 1 apart, whatever the
\* order of the lap distances processed; an update whose floor(lapDistance)
\* does not exceed the last stored distance of the lap emits no sample.
C5_SampleDistancesIncrease ==
    [][/\ \A i \in 1..(Len(lapSamples') - 1) :
             /\ lapSamples'[i + 1].lapId = lapSamples'[i].lapId
             /\ lapSamples'[i + 1].distanceFromStart >= lapSamples'[i].distanceFromStart + 1
       /\ (/\ pc = "sample"
           /\ lapSamples # <<>>
           /\ currentLap # Null
           /\ Floor(call.lapData.lapDistance) <= lapSamples[Len(lapSamples)].distanceFromStart)
          => /\ Count(emitted', "telemetryStored") = 0
             /\ lapSamples' = lapSamples]_vars

\* a lap with two samples, and an update at a smaller distance processed
\* after them during the flying lap without a sample
C5_Witness ==
    /\ pc = "idle"
    /\ call.op = "processTelemetryData"
    /\ Len(lapSamples) >= 2
    /\ isInFlyingLap
    /\ currentLap # Null
    /\ Floor(lastDistance) < lapSamples[Len(lapSamples)].distanceFromStart
    /\ Count(emitted, "telemetryStored") = 0

C7_LapStart ==
    [][/\ (/\ Calls("processTelemetryData")
           /\ SessionIsActive(currentSession)
           /\ ChangesLap(call'.lapData)
           /\ (currentLap = Null \/ call'.lapData.lastLapTimeInMS = 0))
          => /\ Types(emitted') = <<"lapStarted">>
             /\ emitted'[1].payload.lapNumber = call'.lapData.currentLapNum
             /\ emitted'[1].payload.isValid = TRUE
             /\ emitted'[1].payload.lapTimeMs = Null
             /\ currentLap' = Some(emitted'[1].payload)
             /\ lastStoredDistance' = 0 - 1
       /\ (/\ Calls("processTelemetryData")
           /\ ~ChangesLap(call'.lapData))
          => emitted' = <<>>
       /\ pc = "sample"
          => /\ Count(emitted', "lapStarted") = Count(emitted, "lapStarted")
             /\ Count(emitted', "lapCompleted") = Count(emitted, "lapCompleted")]_vars

\* a lap started over a lap still in progress (no lap time reported), with
\* the sampling state of the earlier lap behind it
C7_Witness ==
    /\ pc = "sample"
    /\ Types(emitted) = <<"lapStarted">>
    /\ call.lapData.lastLapTimeInMS = 0
    /\ call.lapData.currentLapNum = 2
    /\ Val(currentLap).lapNumber = 2
    /\ lastLapNumber = 1
    /\ lastStoredDistance = 0 - 1
    /\ lastDistance > 0

\* C8: a lap completion emits lapCompleted with the lap number of the lap
\* that was current, lapTimeMs = the frame's lastLapTimeInMS and isValid =
\* (currentLapInvalid = 0), followed by sessionEnded with a lap count one
\* greater than before the update and active = false.
C8_CompletedLapContents ==
    [][(/\ Calls("processTelemetryData")
        /\ Count(emitted', "lapCompleted") > 0)
        => /\ Len(emitted') = 2
           /\ currentLap # Null
           /\ SessionIsActive(currentSession)
           /\ emitted'[1].type = "lapCompleted"
           /\ emitted'[1].payload.id = Val(currentLap).id
           /\ emitted'[1].payload.lapNumber = Val(currentLap).lapNumber
           /\ emitted'[1].payload.lapTimeMs = Some(call'.lapData.lastLapTimeInMS)
           /\ emitted'[1].payload.isValid = (call'.lapData.currentLapInvalid = 0)
           /\ emitted'[2].type = "sessionEnded"
           /\ emitted'[2].payload.id = Val(currentSession).id
           /\ emitted'[2].payload.totalLaps = Val(currentSession).totalLaps + 1
           /\ emitted'[2].payload.isActive = FALSE]_vars

\* an invalidated lap 1 completed by the change to lap 2
C8_Witness ==
    /\ pc = "sample"
    /\ Len(emitted) = 2
    /\ emitted[1].type = "lapCompleted"
    /\ emitted[1].payload.lapNumber = 1
    /\ emitted[1].payload.isValid = FALSE
    /\ emitted[1].payload.lapTimeMs = Some(85000)
    /\ emitted[2].payload.totalLaps = 1
    /\ call.lapData.currentLapNum = 2
    /\ call.lapData.currentLapInvalid = 1

\* C9: processTelemetryData called while no session is active raises no
\* error, emits nothing and leaves every tracker variable unchanged.
C9_UpdateWithoutSessionIsNoOp ==
    [][(Calls("processTelemetryData") /\ ~SessionIsActive(currentSession))
        => /\ call'.result = "ok"
           /\ emitted' = <<>>
           /\ pc' = "idle"
           /\ UNCHANGED tracker
           /\ UNCHANGED <<nextId, lapSamples, sessionsStarted, sessionsEnded>>]_vars

\* an update dropped after a session with a sampled lap has ended
C9_Witness ==
    /\ pc = "idle"
    /\ call.op = "processTelemetryData"
    /\ call.result = "ok"
    /\ emitted = <<>>
    /\ currentSession = Null
    /\ sessionsEnded >= 1
    /\ lastStoredDistance >= 1
    /\ trackLength > 0

\* C10: a successful startSession emits one sessionStarted with an active
\* session of lap count 0, and leaves no current lap, lastLapNumber = 0,
\* isInFlyingLap = false and lastStoredDistance = -1, whatever earlier
\* sessions and updates left behind.
C10_StartSessionResets ==
    [][(Calls("startSession") /\ ~SessionIsActive(currentSession))
        => /\ call'.result = "ok"
           /\ Types(emitted') = <<"sessionStarted">>
           /\ emitted'[1].payload.isActive = TRUE
           /\ emitted'[1].payload.totalLaps = 0
           /\ currentSession' = Some(emitted'[1].payload)
           /\ currentLap' = Null
           /\ lastLapNumber' = 0
           /\ isInFlyingLap' = FALSE
           /\ lastStoredDistance' = 0 - 1]_vars

\* a second session started after a session with a sampled lap
C10_Witness ==
    /\ call.op = "startSession"
    /\ call.result = "ok"
    /\ Types(emitted) = <<"sessionStarted">>
    /\ sessionsStarted = 2
    /\ nextId = 4
    /\ trackLength > DistUnit
    /\ lastStoredDistance = 0 - 1

\* C11: a successful endSession emits exactly one sessionEnded carrying the
\* session with active = false and the end timestamp set, and leaves no
\* active session and no current lap: getSessionStatus reports
\* hasActiveSession = false.
C11_EndSessionEnds ==
    [][(Calls("endSession") /\ SessionIsActive(currentSession))
        => /\ call'.result = "ok"
           /\ Types(emitted') = <<"sessionEnded">>
           /\ emitted'[1].payload.id = Val(currentSession).id
           /\ emitted'[1].payload.isActive = FALSE
           /\ emitted'[1].payload.ended = TRUE
           /\ ~SessionIsActive(currentSession')
           /\ currentLap' = Null
           /\ (getSessionStatus.hasActiveSession)' = FALSE
           /\ (getSessionStatus.currentLap)' = Null]_vars

\* a session ended by endSession while its lap was being sampled
C11_Witness ==
    /\ call.op = "endSession"
    /\ call.result = "ok"
    /\ Types(emitted) = <<"sessionEnded">>
    /\ emitted[1].payload.ended
    /\ getSessionStatus.hasActiveSession = FALSE
    /\ lastStoredDistance >= 0

\* the events of an update in the order of emission: each lifecycle type at
\* most once, no lap-change event after a telemetryStored
OncePerUpdateInOrder(es) ==
    /\ \A type \in {"lapStarted", "lapCompleted", "sessionEnded", "telemetryStored"} :
          Count(es, type) <= 1
    /\ Count(es, "sessionStarted") = 0
    /\ \A i, j \in 1..Len(es) :
          (es[i].type = "telemetryStored" /\ es[j].type \in {"lapStarted", "lapCompleted"})
             => j < i

\* C12 as stated: within one update each lifecycle event type is emitted at
\* most once and lap-change events precede the telemetryStored; an update
\* that starts a lap during a flying lap emits lapStarted and then a
\* telemetryStored referencing the lap just started.
C12_AsStated ==
    [][pc = "sample"
        => /\ OncePerUpdateInOrder(emitted')
           /\ (Count(emitted, "lapStarted") = 1 /\ call.lapData.driverStatus = FLYING_LAP)
              => /\ Types(emitted') = <<"lapStarted", "telemetryStored">>
                 /\ emitted'[2].payload.lapId = emitted'[1].payload.id]_vars

\* C12 amended: the telemetryStored follows the lapStarted exactly when the
\* lap distance of the update is not negative; with a negative lap distance
\* the update emits lapStarted alone.
C12_OncePerUpdateInOrder ==
    [][pc = "sample"
        => /\ OncePerUpdateInOrder(emitted')
           /\ (Count(emitted, "lapStarted") = 1 /\ call.lapData.driverStatus = FLYING_LAP)
              => IF call.lapData.lapDistance >= 0
                 THEN /\ Types(emitted') = <<"lapStarted", "telemetryStored">>
                      /\ emitted'[2].payload.lapId = emitted'[1].payload.id
                      /\ emitted'[2].payload.sessionId = emitted'[1].payload.sessionId
                 ELSE Types(emitted') = <<"lapStarted">>]_vars

\* lap 2 started over the sampled lap 1 during a flying lap, with its first
\* sample in the same update
C12_Witness ==
    /\ pc = "idle"
    /\ call.op = "processTelemetryData"
    /\ Types(emitted) = <<"lapStarted", "telemetryStored">>
    /\ emitted[1].payload.lapNumber = 2
    /\ emitted[2].payload.lapId = emitted[1].payload.id
    /\ emitted[2].payload.distanceFromStart = 0
    /\ trackLength > DistUnit

\* a lapCompleted is emitted only for the lap that is current, which belongs
\* to the session active at that moment, and a lap that becomes current is a
\* new lap with an identity never used before
CompletesOnlyCurrentLap ==
    /\ \A i \in 1..Len(emitted') :
          (emitted' # emitted /\ emitted'[i].type = "lapCompleted")
             => /\ currentLap # Null
                /\ SessionIsActive(currentSession)
                /\ emitted'[i].payload.id = Val(currentLap).id
                /\ emitted'[i].payload.sessionId = Val(currentSession).id
    /\ (currentLap' # Null /\ currentLap' # currentLap)
          => /\ Val(currentLap').id = nextId
             /\ nextId' > nextId
             /\ SessionIsActive(currentSession')
             /\ Val(currentLap').sessionId = Val(currentSession').id

\* C14: an explicit endSession during a lap in progress emits sessionEnded
\* only, with the session's lap count not incremented, and the lap is
\* discarded: it is no longer current, and no later operation emits
\* lapCompleted for it.
C14_EndSessionDiscardsLap ==
    [][/\ (Calls("endSession") /\ SessionIsActive(currentSession) /\ currentLap # Null)
          => /\ Types(emitted') = <<"sessionEnded">>
             /\ emitted'[1].payload.totalLaps = Val(currentSession).totalLaps
             /\ emitted'[1].payload.totalLaps = 0
             /\ currentLap' = Null
       /\ CompletesOnlyCurrentLap]_vars

\* after a lap was discarded by endSession, a lap of a later session is
\* completed
C14_Witness ==
    /\ pc = "sample"
    /\ Count(emitted, "lapCompleted") = 1
    /\ emitted[1].payload.id = 4
    /\ emitted[1].payload.sessionId = 3
    /\ sessionsEnded = 2

\* C15: every lapStarted carries the id of the session active when the lap is
\* created; every telemetryStored carries the id of the current lap and the
\* id of the active session, which is that lap's sessionId; a current lap
\* always belongs to the active session.
C15_EventsReferenceActiveSession ==
    [][/\ pc = "idle"
          => \A i \in 1..Len(emitted') :
                emitted'[i].type = "lapStarted"
                   => /\ SessionIsActive(currentSession)
                      /\ emitted'[i].payload.sessionId = Val(currentSession).id
                      /\ currentSession' = currentSession
       /\ (pc = "sample" /\ Count(emitted', "telemetryStored") > 0)
          => /\ SessionIsActive(currentSession)
             /\ currentLap # Null
             /\ emitted'[Len(emitted')].payload.lapId = Val(currentLap).id
             /\ emitted'[Len(emitted')].payload.sessionId = Val(currentSession).id
             /\ Val(currentLap).sessionId = Val(currentSession).id
       /\ currentLap' # Null
          => /\ SessionIsActive(currentSession')
             /\ Val(currentLap').sessionId = Val(currentSession').id]_vars

\* a sample of a lap of the second session
C15_Witness ==
    /\ pc = "idle"
    /\ Count(emitted, "telemetryStored") = 1
    /\ emitted[Len(emitted)].payload.sessionId = 3
    /\ emitted[Len(emitted)].payload.lapId = 4
    /\ sessionsEnded = 1

\* C16 as stated: a lap with sequence number L is completed only by an
\* update whose currentLapNum differs from L.
C16_AsStated ==
    [][(Calls("processTelemetryData") /\ Count(emitted', "lapCompleted") > 0)
        => call'.lapData.currentLapNum # Val(currentLap).lapNumber]_vars

\* a buffer truncated to exactly n complete car records of the given size
TruncatedTo(n, size) == buffer.length = HEADER_SIZE + n * size

\* C17: for every N in 0..21, decoding a telemetry packet truncated to
\* exactly N complete 60-byte car records returns exactly N car entries and
\* raises no error.
C17_TruncatedTelemetryDecodes ==
    \A n \in 0..(NUM_CARS - 1) :
        (decoded.op = "parseCarTelemetryPacket"
            /\ TruncatedTo(n, carTelemetryDataSize))
        => /\ decoded.result.error = FALSE
           /\ Len(decoded.result.carTelemetryData) = n

\* a buffer of 29 + 10*60 bytes has been decoded into 10 entries
C17_Witness ==
    /\ decoded.op = "parseCarTelemetryPacket"
    /\ buffer.length = HEADER_SIZE + 10 * carTelemetryDataSize
    /\ decoded.result.error = FALSE
    /\ Len(decoded.result.carTelemetryData) = 10

\* C18 as stated: for every N in 0..21, decoding a lap-data packet
\* truncated to exactly N complete 57-byte car records returns exactly N
\* lap entries and never raises.
C18_AsStated ==
    \A n \in 0..(NUM_CARS - 1) :
        (decoded.op = "parseLapDataPacket" /\ TruncatedTo(n, lapDataSize))
        => /\ decoded.result.error = FALSE
           /\ Len(decoded.result.lapData) = n

\* C19 as stated: for any buffer holding fewer than 22 complete car
\* records, with or without leftover bytes of a partial record, each of the
\* three trailing values of the decoded telemetry packet is 0.
C19_AsStated ==
    (decoded.op = "parseCarTelemetryPacket"
        /\ buffer.length < HEADER_SIZE + NUM_CARS * carTelemetryDataSize)
    => /\ decoded.result.mfdPanelIndex = 0
       /\ decoded.result.mfdPanelIndexSecondaryPlayer = 0
       /\ decoded.result.suggestedGear = 0

\* the events of the scenario up to the first two packets, to the second
\* two packets, and to the end
ScenarioFirstLap(es) ==
    /\ Types(es) = <<"sessionStarted", "lapStarted", "telemetryStored">>
    /\ es[2].payload.lapNumber = 1
    /\ es[2].payload.sessionId = es[1].payload.id
    /\ es[3].payload.distanceFromStart = 0
    /\ es[3].payload.lapId = es[2].payload.id

ScenarioSecondSample(es) ==
    /\ Len(es) = 4
    /\ ScenarioFirstLap(SubSeq(es, 1, 3))
    /\ es[4].type = "telemetryStored"
    /\ es[4].payload.distanceFromStart = 1
    /\ es[4].payload.lapId = es[2].payload.id

ScenarioEnd(es) ==
    /\ Len(es) = 6
    /\ ScenarioSecondSample(SubSeq(es, 1, 4))
    /\ es[5].type = "lapCompleted"
    /\ es[5].payload.id = es[2].payload.id
    /\ es[5].payload.lapNumber = 1
    /\ es[5].payload.lapTimeMs = Some(85000)
    /\ es[5].payload.isValid = TRUE
    /\ es[6].type = "sessionEnded"
    /\ es[6].payload.id = es[1].payload.id

\* C13: on a fresh server with a session just started, a lap-data packet
\* (lap 1, flying lap, distance 0) followed by a telemetry packet yields
\* exactly lapStarted(lap 1) then telemetryStored(distance 0); a lap-data
\* packet with a distance between 1 and 2 followed by a telemetry packet
\* yields exactly one further telemetryStored with distance 1; a lap-data
\* packet with lap 2, last lap time 85000 and the lap not invalid yields
\* lapCompleted(lap 1, 85000, valid) then sessionEnded; no other lifecycle
\* event occurs.
C13_EndToEndScenario ==
    pc = "idle" =>
        /\ scenario \in {1, 2} => Types(scenarioLog) = <<"sessionStarted">>
        /\ scenario = 3 => ScenarioFirstLap(scenarioLog)
        /\ scenario \in {4, 5} => ScenarioSecondSample(scenarioLog)
        /\ scenario = ScenarioLength => ScenarioEnd(scenarioLog)

\* the scenario has run to its end
C13_Witness ==
    /\ pc = "idle"
    /\ scenario = ScenarioLength
    /\ ScenarioEnd(scenarioLog)
    /\ ~SessionIsActive(currentSession)

\* C20: header decoding of a buffer shorter than 29 bytes fails, and the
\* failure is confined to that packet: the listener emits its error event
\* and no telemetry or lapData event, no lifecycle event fires, the tracker
\* and the pairing state of the handlers are unchanged, and the listener is
\* ready for the next packet.
C20_ShortPacketConfined ==
    [][(pc = "idle" /\ buffer' # NoBuffer /\ buffer'.length < HEADER_SIZE)
        => /\ parsePacketHeader(buffer').error
           /\ dispatched' = "error"
           /\ UNCHANGED <<notPacketLayer, pairing>>]_vars

\* a short packet has been dropped while a lap of an active session is
\* being recorded
C20_Witness ==
    /\ buffer.length = HEADER_SIZE - 1
    /\ buffer.packetId = CAR_TELEMETRY
    /\ dispatched = "error"
    /\ SessionIsActive(currentSession)
    /\ currentLap # Null
    /\ latestLapData # Null
    /\ latestTelemetryData # Null

\* the step handles a datagram that is long enough for its header
Receives == pc = "idle" /\ buffer' # NoBuffer /\ buffer'.length >= HEADER_SIZE

\* C21: packets are dispatched by the type tag of the header alone: tag 6
\* goes to the telemetry handler and tag 2 to the lap-data handler; a packet
\* with any other tag reaches neither decoder nor the tracker, so it causes
\* no lifecycle event and no change of tracker or pairing state.
C21_DispatchByTag ==
    [][Receives =>
        /\ (dispatched' = "telemetry") = (buffer'.packetId = CAR_TELEMETRY)
        /\ (dispatched' = "lapData") = (buffer'.packetId = LAP_DATA)
        /\ buffer'.packetId \notin {CAR_TELEMETRY, LAP_DATA}
              => /\ dispatched' # "error"
                 /\ UNCHANGED <<notPacketLayer, pairing, latestCars>>]_vars

\* a packet of an unknown type has been received while a session is active
\* and both frames are stored
C21_Witness ==
    /\ buffer.packetId = UnknownPacketId
    /\ dispatched = "unknownPacket"
    /\ SessionIsActive(currentSession)
    /\ latestTelemetryData # Null
    /\ latestLapData # Null

\* the step handles a datagram and forwards an update to the tracker of an
\* active session
Forwards == pc = "idle" /\ buffer' # NoBuffer /\ pc' = "sample"

\* C22 as stated: no update is forwarded to the tracker until both a
\* telemetry frame and a lap frame are available: after a (re)start,
\* including the start of a session, the first telemetry-only or lap-only
\* packet is not forwarded, and forwarding begins only with the packet that
\* completes the pair.
C22_AsStated ==
    [][Forwards => seen'.telemetry /\ seen'.lapData]_vars

\* C23 as stated: whenever an update is forwarded to the tracker, its
\* telemetry frame and its lap frame belong to the same car, the
\* locally-controlled car given by the header of the packet being
\* processed, also when that index changes between packets.
C23_AsStated ==
    [][Forwards =>
        /\ latestCars'.telemetry = Some(buffer'.playerCarIndex)
        /\ latestCars'.lapData = Some(buffer'.playerCarIndex)]_vars

\* the locally-controlled car of the header of datagram b is not among the
\* car records decoded from b
CarUnavailable(b) ==
    \/ b.playerCarIndex = NoCarIndex
    \/ /\ b.packetId = CAR_TELEMETRY
       /\ At(carTelemetryOf[b].carTelemetryData, b.playerCarIndex) = Null
    \/ /\ b.packetId = LAP_DATA
       /\ \/ lapDataOf[b].error
          \/ At(lapDataOf[b].lapData, b.playerCarIndex) = Null

\* C24 as stated: when the locally-controlled car index is not available
\* in a decoded packet (the decoded array is shorter than the index, or the
\* index is the sentinel 255), nothing is forwarded to the tracker for that
\* packet and no lifecycle event fires.
C24_AsStated ==
    [][(Receives /\ buffer'.packetId \in {CAR_TELEMETRY, LAP_DATA}
            /\ CarUnavailable(buffer'))
        => UNCHANGED notPacketLayer]_vars

\* the step handles a session request that the tracker rejects
Rejected ==
    /\ pc = "idle"
    /\ response'.entry # "none"
    /\ call'.op \in {"startSession", "endSession"}
    /\ call'.result # "ok"

\* C25 as stated: a startSession request made while a session is active,
\* or an endSession request made while none is active, is never silently
\* swallowed: through every entry point (the REST endpoints and the
\* WebSocket actions) the requester receives a failure result that
\* identifies the rule that was violated.
C25_AsStated ==
    [][Rejected =>
        /\ response'.reply # Null
        /\ Val(response'.reply).success = FALSE
        /\ Val(response'.reply).error = call'.result]_vars

\* C26: telemetry record k is read from offset 29 + 60k and lap record k from
\* offset 29 + 57k, the fields read for one record cover exactly 60 and 57
\* bytes, and a full packet of 1352 (telemetry) or 1285 (lap data) bytes
\* decodes to 22 records with the trailing bytes read at 1349..1351 and
\* 1283..1284.
RecordsReadAt(result, entries, size) ==
    /\ Len(result.reads) = Len(entries)
    /\ Len(entries) <= 22
    /\ \A k \in 0..(Len(entries) - 1) :
          /\ result.reads[k + 1].from = 29 + size * k
          /\ result.reads[k + 1].to = result.reads[k + 1].from + size

C26_RecordLayout ==
    /\ (decoded.op = "parseCarTelemetryPacket" /\ ~decoded.result.error) =>
          /\ RecordsReadAt(decoded.result, decoded.result.carTelemetryData, 60)
          /\ buffer.length = 1352 =>
                /\ Len(decoded.result.carTelemetryData) = 22
                /\ decoded.result.trailingReads = <<1349, 1350, 1351>>
    /\ (decoded.op = "parseLapDataPacket" /\ ~decoded.result.error) =>
          /\ RecordsReadAt(decoded.result, decoded.result.lapData, 57)
          /\ buffer.length = 1285 =>
                /\ Len(decoded.result.lapData) = 22
                /\ decoded.result.trailingReads = <<1283, 1284>>

C26_Witness ==
    /\ decoded.op = "parseCarTelemetryPacket"
    /\ buffer.length = 1352
    /\ Len(decoded.result.carTelemetryData) = 22
    /\ decoded.result.reads[22] = [from |-> 1289, to |-> 1349]
    /\ decoded.result.trailingReads = <<1349, 1350, 1351>>

\* C27: the wheel order of the record is kept up to the stored sample: for
\* each four-wheel quantity the i-th value of the record is array index i of
\* the decoded frame, and the sample's RL, RR, FL, FR fields hold the first,
\* second, third and fourth value of the record.
WheelsOf(d, rl, rr, fl, fr) == <<d[rl], d[rr], d[fl], d[fr]>>

SampleKeepsWheelOrder(d) ==
    /\ WheelsOf(d, "brakeTempRl", "brakeTempRr", "brakeTempFl", "brakeTempFr")
         = BrakesTemperatures
    /\ WheelsOf(d, "tyreSurfaceTempRl", "tyreSurfaceTempRr",
                   "tyreSurfaceTempFl", "tyreSurfaceTempFr")
         = TyresSurfaceTemperatures
    /\ WheelsOf(d, "tyreInnerTempRl", "tyreInnerTempRr",
                   "tyreInnerTempFl", "tyreInnerTempFr")
         = TyresInnerTemperatures
    /\ WheelsOf(d, "tyrePressureRl", "tyrePressureRr",
                   "tyrePressureFl", "tyrePressureFr")
         = TyresPressures
    /\ WheelsOf(d, "surfaceTypeRl", "surfaceTypeRr",
                   "surfaceTypeFl", "surfaceTypeFr")
         = SurfaceTypes

FrameKeepsWheelOrder(f) ==
    \A i \in 1..4 :
        /\ f.brakesTemperature[i] = BrakesTemperatures[i]
        /\ f.tyresSurfaceTemperature[i] = TyresSurfaceTemperatures[i]
        /\ f.tyresInnerTemperature[i] = TyresInnerTemperatures[i]
        /\ f.tyresPressure[i] = TyresPressures[i]
        /\ f.surfaceType[i] = SurfaceTypes[i]

C27_WheelOrderPreserved ==
    /\ latestTelemetryData # Null =>
          FrameKeepsWheelOrder(Val(latestTelemetryData))
    /\ \A k \in 1..Len(emitted) :
          emitted[k].type = "telemetryStored" =>
              SampleKeepsWheelOrder(emitted[k].payload)

C27_Witness ==
    /\ latestTelemetryData # Null
    /\ \E k \in 1..Len(emitted) :
          /\ emitted[k].type = "telemetryStored"
          /\ emitted[k].payload.brakeTempRl = 301
          /\ emitted[k].payload.surfaceTypeFr = 4

\* C28 (as stated): a reconnect is scheduled after min(1000 * 2^n, 30000) ms
\* where n is the number of reconnect attempts made since the last successful
\* open, n is 0 after a successful open, and at most 5 reconnect attempts are
\* made without an intervening successful open.
Schedules == scheduled' # scheduled

Opens == \E s \in sockets' \ sockets : s.state = "OPEN"

C28_AsStated ==
    /\ [](attemptsSinceOpen <= 5)
    /\ [][(Schedules =>
              Val(scheduled').timeout
                  = Min(1000 * 2 ^ Val(scheduled').n, 30000))
          /\ (Opens => reconnectAttempts' = 0)]_vars

\* C29: updates are processed one at a time in arrival order: an update that
\* has begun completes (sampling step, assignment of lastLapNumber from its
\* own lap frame) before any datagram is handled or any other update begins,
\* and one lap-number transition runs the lap-change protocol exactly once
\* (one lapStarted or one lapCompleted), an update that repeats the lap
\* number not at all.
BeginsUpdate == pc = "idle" /\ pc' = "sample"

LapEvents(es) == Count(es, "lapStarted") + Count(es, "lapCompleted")

C30_AsStated ==
    [][\A k \in 1..Len(NewEvents) :
          NewEvents[k].type = "lapStarted" =>
              NewEvents[k].payload.lapNumber \notin startedLaps]_vars

\* C31: every session records at most one completed lap: at most one
\* lapCompleted is emitted between a sessionStarted and its sessionEnded, the
\* lap count of a session is 0 or 1, and the lap count that sessionEnded
\* carries is the number of lapCompleted events of the session.
C31_OneLapPerSession ==
    /\ sessionHistory.lapsCompleted <= 1
    /\ currentSession # Null => Val(currentSession).totalLaps \in {0, 1}
    /\ \A k \in 1..Len(emitted) :
          emitted[k].type = "sessionEnded" =>
              /\ emitted[k].payload.totalLaps \in {0, 1}
              /\ emitted[k].payload.totalLaps = sessionHistory.lapsCompleted

C31_Witness ==
    /\ sessionHistory.lapsCompleted = 1
    /\ ~sessionHistory.open
    /\ sessionsStarted = 2
    /\ \E k \in 1..Len(emitted) :
          /\ emitted[k].type = "sessionEnded"
          /\ emitted[k].payload.totalLaps = 1

\* C32: the events are well-bracketed per session: sessionStarted and
\* sessionEnded alternate, starting with sessionStarted; lapStarted,
\* lapCompleted and telemetryStored are emitted only between a sessionStarted
\* and its sessionEnded; a telemetryStored follows, in its session, the
\* lapStarted of the lap it references, and a lapCompleted the lapStarted of
\* the same lap.
InBracket(h, e) ==
    /\ e.type = "sessionStarted" => ~h.open
    /\ e.type \in {"sessionEnded", "lapStarted", "lapCompleted",
                    "telemetryStored"} => h.open
    /\ e.type = "telemetryStored" => e.payload.lapId \in h.lapIds
    /\ e.type = "lapCompleted" => e.payload.id \in h.lapIds

C32_WellBracketed ==
    [][\A k \in 1..Len(NewEvents) :
          InBracket(RecordedAll(sessionHistory, SubSeq(NewEvents, 1, k - 1)),
                    NewEvents[k])]_vars

\* the lap of the second session is completed and the session ended
C32_Witness ==
    /\ sessionsStarted = 2
    /\ sessionsEnded = 2
    /\ sessionHistory.lapsCompleted = 1
    /\ Types(emitted) = <<"lapCompleted", "sessionEnded">>
    /\ emitted[1].payload.id \in sessionHistory.lapIds

\* C33: a current lap exists only while a session is active and belongs to
\* that session, and isInFlyingLap is true only while a session is active;
\* both are cleared however the session ends.
C33_LapAndFlyingOnlyInSession ==
    /\ currentLap # Null =>
          /\ SessionIsActive(currentSession)
          /\ Val(currentLap).sessionId = Val(currentSession).id
    /\ isInFlyingLap => SessionIsActive(currentSession)
    /\ sessionsEnded = sessionsStarted => currentLap = Null /\ ~isInFlyingLap

\* the session has ended on the completion of its lap, inside an update
\* whose lap frame reports a flying lap
C33_Witness ==
    /\ pc = "sample"
    /\ call.lapData.driverStatus = FLYING_LAP
    /\ Types(emitted) = <<"lapCompleted", "sessionEnded">>
    /\ currentSession = Null
    /\ currentLap = Null
    /\ ~isInFlyingLap

\* C34: sessions are isolated from each other's lap tracking: whatever
\* happened in earlier sessions, the first update of a session that reports
\* a lap number above 0 emits lapStarted, for a lap of that number and of
\* that session, and neither lapCompleted nor sessionEnded; and when its lap
\* frame reports a flying lap at distance 0, the first sample of that lap is
\* stored at distance 0.
FirstLapUpdate ==
    /\ pc = "idle" /\ pc' = "sample"
    /\ ~sessionHistory.lapReported
    /\ call'.lapData.currentLapNum > 0

FirstLapUpdatePending ==
    /\ pc = "sample"
    /\ Types(emitted) = <<"lapStarted">>
    /\ sessionHistory.lapIds = {emitted[1].payload.id}

C34_SessionsIsolated ==
    [][/\ FirstLapUpdate =>
             /\ Types(emitted') = <<"lapStarted">>
             /\ emitted'[1].payload.lapNumber = call'.lapData.currentLapNum
             /\ emitted'[1].payload.sessionId = Val(currentSession').id
             /\ currentLap' = Some(emitted'[1].payload)
             /\ currentSession' = currentSession
             /\ lastStoredDistance' = 0 - 1
       /\ (/\ FirstLapUpdatePending
           /\ call.lapData.driverStatus = FLYING_LAP
           /\ Floor(call.lapData.lapDistance) = 0) =>
             /\ Types(emitted') = <<"lapStarted", "telemetryStored">>
             /\ emitted'[2].payload.distanceFromStart = 0
             /\ emitted'[2].payload.lapId = emitted[1].payload.id]_vars

\* the first lap of a second session, after a first session whose lap went
\* beyond distance 0
C34_Witness ==
    /\ pc = "idle"
    /\ sessionsStarted = 2
    /\ sessionsEnded = 1
    /\ trackLength > 0
    /\ lastDistance = 0
    /\ Cardinality(sessionHistory.lapIds) = 1
    /\ Types(emitted) = <<"lapStarted", "telemetryStored">>
    /\ emitted[2].payload.distanceFromStart = 0

\* the handler of datagram b throws on reading the player's record, which is
\* undefined: part_001 lines 441 and 482, caught at lines 462 and 500
Dropped(b) ==
    \/ /\ b.packetId = CAR_TELEMETRY
       /\ At(carTelemetryOf[b].carTelemetryData, headerOf[b].playerCarIndex) = Null
    \/ /\ b.packetId = LAP_DATA
       /\ \/ lapDataOf[b].error
          \/ At(lapDataOf[b].lapData, playerCarIndex) = Null

\* C35 as stated: a telemetry or lap packet that is dropped because the
\* player's car is not available in it leaves the pairing state unchanged:
\* the buffered latest telemetry frame, latest lap frame and header keep
\* their last valid values (so the next valid packet of the other type is
\* still forwarded, paired with the last valid frame).
C35_AsStated ==
    [][(/\ Receives
        /\ buffer'.packetId \in {CAR_TELEMETRY, LAP_DATA}
        /\ CarUnavailable(buffer')
        /\ Dropped(buffer')
        /\ latestTelemetryData # Null
        /\ latestLapData # Null
        /\ latestHeader # Null)
          => UNCHANGED <<latestTelemetryData, latestLapData, latestHeader>>]_vars

\* C36 as stated: no emitted sample is lost by the server's batching: every
\* data point pushed into the telemetry buffer is passed to
\* saveTelemetryData at least once before it is removed from the buffer,
\* including data points pushed while an asynchronous flush (batch-size
\* flush, lap-completion flush or session-end flush) is still in progress.
\* (A data point that a suspended flush still holds in its copy of the
\* buffer when it is removed is not counted as lost.)
C36_AsStated == ~lost

\* the saveLap call for the lap of the data point has not returned
SaveLapPending(dataPoint) ==
    \E h \in pending : h.at = "saveLap" /\ h.lap = Some(dataPoint.lapId)

\* C37 as stated: persistence writes respect the lap foreign key: for every
\* lap L, no saveTelemetryData call containing data points of L is issued
\* before the saveLap insert of L (triggered by lapStarted) has completed,
\* for every interleaving of the asynchronous event handlers.
C37_AsStated ==
    request # Null =>
        \A k \in 1..Len(Val(request)) : ~SaveLapPending(Val(request)[k])

\* the calls a suspended flushTelemetryBufferWithRetry has made: up to
\* maxRetries, a further one only after one that failed, and a wait only
\* after a foreign-key error
C38_Bounded ==
    \A h \in pending :
        h.at \in {"save", "wait"} =>
            /\ h.attempt \in 1..maxRetries
            /\ h.attempt > 1 => h.code \in {"23503", "timeout"}
            /\ h.at = "wait" => h.code = "23503"

\* a step in which a flushTelemetryBufferWithRetry returns leaves none of
\* the data points it was called with in the buffer, and every call of
\* saveTelemetryData it makes is one more attempt
C38_Returns ==
    \A h \in pending :
        h.at \in {"save", "wait"} =>
            LET after == {g \in pending' :
                             g.at \in {"save", "wait"} /\ g.lap = h.lap}
            IN  /\ after = {} /\ h.fresh => telemetryBuffer' = <<>>
                /\ \A g \in after :
                      \/ g.attempt = h.attempt /\ (g.at = h.at \/ g.at = "wait")
                      \/ /\ g.attempt = h.attempt + 1
                         /\ g.at = "save"
                         /\ request' = Some(g.dataPoints)

\* C38: flushTelemetryBufferWithRetry always terminates after at most
\* maxRetries (3) calls to saveTelemetryData: it stops at the first
\* successful call, waits before retrying only after a foreign-key error
\* (23503), and when it returns (after a success or after the final failed
\* attempt) the data points it was called with are no longer in the buffer.
C38_RetryTerminates ==
    /\ []C38_Bounded
    /\ [][C38_Returns]_vars
    /\ \A l \in 1..MaxLaps : Retrying(l) ~> ~Retrying(l)

\* the third attempt is under way after a wait, with the data points the
\* flush was called with still in the buffer
C38_Witness ==
    \E h \in pending :
        /\ h.at = "save"
        /\ h.attempt = maxRetries
        /\ h.code = "23503"
        /\ h.fresh
        /\ telemetryBuffer # <<>>

\* C39 as stated: after the user calls disconnect() on the frontend
\* WebSocket hook, no reconnection is attempted until connect() is called
\* again: any pending reconnect timer is cancelled and the close event
\* caused by the intentional disconnect never schedules a new one, whether
\* the socket was open or still connecting when disconnect() was called.
\* (ws.current is null exactly from a call of disconnect() to the next call
\* of connect(), and before the first one; no step from such a state sets a
\* timer or runs the callback of one.)
C39_AsStated ==
    [][ws = Null =>
        /\ Cardinality(timers') <= Cardinality(timers)
        /\ attemptsSinceOpen' # attemptsSinceOpen + 1]_vars
====
